---- MODULE Spec2Model ----
(***************************************************************************)
(* Model of the agentic movie recommender: the LangGraph pipeline of       *)
(* src/orchestrator.py and the agents it sequences (intent, planner,       *)
(* critic, explainer), the JSON client they share, and the fusion ranker.  *)
(*                                                                         *)
(* Python floats are modelled by exact rationals <<n, d>> (d > 0, reduced);*)
(* Python dicts by functions whose domain is the set of keys present;      *)
(* the request's query by the sequence of its characters.                  *)
(***************************************************************************)
EXTENDS Integers, Sequences, FiniteSets, TLC

VARIABLES
    pc,      \* pipeline: the node the graph runs next; unit runs: "call" / "returned" / "raised"
    cfg,     \* the POCConfig instance shared by agents, ranker and graph
    state,   \* the LangGraph state dict of the request (keys present = DOMAIN)
    args,    \* arguments of the agent call under examination (unit runs)
    ret      \* what that call returned (unit runs)

vars == <<pc, cfg, state, args, ret>>

----------------------------------------------------------------------------
(* Python floats: exact rationals <<numerator, denominator>>, and NaN *)

RECURSIVE Gcd(_, _)
Gcd(a, b) == IF b = 0 THEN a ELSE Gcd(b, a % b)

Abs(x) == IF x < 0 THEN -x ELSE x

Rat(n, d) == LET g == Gcd(Abs(n), d) IN <<n \div g, d \div g>>

RZero == <<0, 1>>
ROne == <<1, 1>>

\* float("nan"): arithmetic on it yields NaN, every comparison with it is False
NaN == <<0, 0>>
IsNaN(a) == a[2] = 0

\* sums over the least common denominator keep the intermediate products small
RAdd(a, b) ==
    IF IsNaN(a) \/ IsNaN(b) THEN NaN
    ELSE LET g == Gcd(a[2], b[2])
         IN Rat(a[1] * (b[2] \div g) + b[1] * (a[2] \div g), (a[2] \div g) * b[2])
RNeg(a) == <<-a[1], a[2]>>
RSub(a, b) == RAdd(a, RNeg(b))
RMul(a, b) ==
    IF IsNaN(a) \/ IsNaN(b) THEN NaN
    ELSE LET x == Rat(a[1], b[2])
             y == Rat(b[1], a[2])
         IN <<x[1] * y[1], x[2] * y[2]>>
\* a / b for a divisor b > 0 or NaN (every divisor in the code is floored above 0)
RDiv(a, b) == IF IsNaN(b) THEN NaN ELSE RMul(a, <<b[2], b[1]>>)
\* a < b: by the integer parts, then by the fractional parts
RLt(a, b) ==
    /\ ~IsNaN(a)
    /\ ~IsNaN(b)
    /\ LET fa == a[1] \div a[2]
           fb == b[1] \div b[2]
           g == Gcd(a[2], b[2])
       IN fa < fb \/ (fa = fb /\ (a[1] % a[2]) * (b[2] \div g) < (b[1] % b[2]) * (a[2] \div g))
RLe(a, b) == ~IsNaN(a) /\ ~IsNaN(b) /\ ~RLt(b, a)
\* Python's max(a, b) / min(a, b): the first argument unless the second is strictly better
RMax(a, b) == IF RLt(a, b) THEN b ELSE a
RMin(a, b) == IF RLt(b, a) THEN b ELSE a

\* the 1e-6 floor under a sum of weights
Epsilon == <<1, 1000000>>

----------------------------------------------------------------------------
(* Python dicts and values *)

EmptyDict == [k \in {} |-> TRUE]

Get(d, k, default) == IF k \in DOMAIN d THEN d[k] ELSE default

\* a JSON value met where the code expects a number: one that float() accepts
\* (a number, or a string such as "0.5" or "nan"), or a string it rejects
PyFloat(r) == [ty |-> "float", val |-> r]
PyStr == [ty |-> "str", val |-> RZero]

\* float(x) raises ValueError on a non-numeric string
FloatRaises(x) == x.ty # "float"
Float(x) == x.val

\* the dicts over key k: absent, or present with one of the values
OptKey(k, values) == {EmptyDict} \cup {(k :> v) : v \in values}

----------------------------------------------------------------------------
(* Strings: the query as a sequence of characters *)

Whitespace == {" "}

RECURSIVE LStrip(_)
LStrip(s) == IF s # <<>> /\ Head(s) \in Whitespace THEN LStrip(Tail(s)) ELSE s

RECURSIVE RStrip(_)
RStrip(s) ==
    IF s # <<>> /\ s[Len(s)] \in Whitespace THEN RStrip(SubSeq(s, 1, Len(s) - 1)) ELSE s

\* str.strip()
Strip(s) == RStrip(LStrip(s))

LowerChar(c) ==
    CASE c = "K" -> "k"
      [] c = "F" -> "f"
      [] c = "C" -> "c"
      [] c = "S" -> "s"
      [] OTHER -> c

\* str.lower()
Lower(s) == [i \in 1..Len(s) |-> LowerChar(s[i])]

\* kw in s
Contains(kw, s) ==
    \E i \in 0..(Len(s) - Len(kw)) : SubSeq(s, i + 1, i + Len(kw)) = kw

\* (intent or "explore").strip().lower() on the intent strings of the model
NormIntent(s) ==
    CASE s = "" -> "explore"
      [] s = " Search" -> "search"
      [] OTHER -> s

----------------------------------------------------------------------------
(* Configuration *)

FinalK == 20
CriticTopN == 10
GenreDiversityMinUnique == 4
CfK == 200
SemanticK == 80

DefaultCfg ==
    [ enforce_hybrid_for_search |-> TRUE,
      min_cf_weight |-> <<1, 5>>,
      advantage_alpha |-> <<3, 5>>,
      novelty_lambda |-> <<1, 5>>,
      critic_topn |-> CriticTopN,
      popularity_mean_threshold |-> <<13, 20>>,
      genre_diversity_min_unique |-> GenreDiversityMinUnique,
      cf_k |-> CfK,
      semantic_k |-> SemanticK,
      final_k |-> FinalK ]

----------------------------------------------------------------------------
(* OpenAIJSONClient.generate_json: one call, then up to max_retries repairs *)

\* what one _call + _try_parse can come to: output that parses to a mapping,
\* output that does not, or a transport error raised by the API
CallDict(d) == [kind |-> "dict", data |-> d]
CallUnparsable == [kind |-> "unparsable", data |-> EmptyDict]
CallRaises == [kind |-> "raise", data |-> EmptyDict]
CallFailures == {CallUnparsable, CallRaises}

RECURSIVE Repair(_, _, _, _)
Repair(calls, i, max_retries, trace) ==
    IF i > max_retries
    THEN [ok |-> FALSE, data |-> EmptyDict, trace |-> trace, ncalls |-> i]
    ELSE LET c == calls[i + 1] IN
         IF c.kind = "dict"
         THEN [ok |-> TRUE, data |-> c.data,
               trace |-> Append(trace, "json_repair_success"), ncalls |-> i + 1]
         ELSE Repair(calls, i + 1, max_retries,
                     Append(trace, IF c.kind = "raise" THEN "openai_repair_failed"
                                                       ELSE "json_repair_failed"))

\* mutant of GenerateJson: no repair is attempted after a failed first call
GenerateJsonGivesUp(calls, max_retries) ==
    LET c == calls[1] IN
    IF c.kind = "dict"
    THEN [ok |-> TRUE, data |-> c.data, trace |-> <<>>, ncalls |-> 1]
    ELSE [ok |-> FALSE, data |-> EmptyDict,
          trace |-> <<IF c.kind = "raise" THEN "openai_call_failed" ELSE "json_parse_failed">>,
          ncalls |-> 1]

GenerateJson(calls, max_retries) ==
    LET c == calls[1] IN
    IF c.kind = "dict"
    THEN [ok |-> TRUE, data |-> c.data, trace |-> <<>>, ncalls |-> 1]
    ELSE Repair(calls, 1, max_retries,
                <<IF c.kind = "raise" THEN "openai_call_failed" ELSE "json_parse_failed">>)

\* every agent passes max_retries=1
AgentMaxRetries == 1

\* the runs of the reasoning service an agent can meet, over the mappings D it
\* may answer with: right at once, right after a repair, or never
ServiceRuns(D) ==
    {<<CallDict(d), CallUnparsable>> : d \in D}
    \cup {<<f, CallDict(d)>> : f \in CallFailures, d \in D}
    \cup {<<f, g>> : f \in CallFailures, g \in CallFailures}

\* a callee's outcome: a returned value, or an exception escaping it
Returned(v) == [raised |-> FALSE, value |-> v]
Raised == [raised |-> TRUE, value |-> EmptyDict]

----------------------------------------------------------------------------
(* PlannerAgent.run *)

\* mutant of ForceSemantic: the advisory flag is trusted
ForceSemanticSkipped(query, use_semantic) == use_semantic

\* "Enforce query -> semantic"
ForceSemantic(query, use_semantic) == IF query # <<>> THEN TRUE ELSE use_semantic

HybridSearch(c, intent) == c.enforce_hybrid_for_search /\ intent = "search"

\* "Hybrid enforcement for search"
ForceCf(c, intent, use_cf) == IF HybridSearch(c, intent) THEN TRUE ELSE use_cf

\* "Enforce minimum CF share if enabled", both tools active
MinCfShare(c, intent, w) ==
    IF HybridSearch(c, intent)
    THEN LET w_cf == RMax(w[1], c.min_cf_weight)
         IN <<w_cf, RMax(RZero, RSub(ROne, w_cf))>>
    ELSE w

\* "Normalize"
Normalize(w) ==
    LET s == RMax(RAdd(w[1], w[2]), Epsilon)
    IN <<RDiv(w[1], s), RDiv(w[2], s)>>

\* mutant of ResolveWeights: a single active tool keeps the weights it came with
ResolveWeightsKeepsAdvised(c, intent, query, use_cf, use_semantic, w, trace) ==
    IF use_cf /\ use_semantic
    THEN <<use_cf, use_semantic, Normalize(MinCfShare(c, intent, w)), trace>>
    ELSE <<use_cf \/ ~use_semantic, use_semantic, w, trace>>

\* the four-way branch on the resolved flags: <<use_cf, use_semantic, weights, trace>>
ResolveWeights(c, intent, query, use_cf, use_semantic, w, trace) ==
    IF use_cf /\ use_semantic
    THEN <<use_cf, use_semantic, Normalize(MinCfShare(c, intent, w)), trace>>
    ELSE IF use_cf /\ ~use_semantic
    THEN <<use_cf, use_semantic, <<ROne, RZero>>, trace>>
    ELSE IF use_semantic /\ ~use_cf
    THEN IF HybridSearch(c, intent)
         THEN <<TRUE, use_semantic,
                <<c.min_cf_weight, RSub(ROne, c.min_cf_weight)>>,
                Append(trace, "Corrected: CF re-enabled for hybrid search")>>
         ELSE <<use_cf, use_semantic, <<RZero, ROne>>, trace>>
    ELSE <<TRUE, query # <<>>,
           IF query = <<>> THEN <<ROne, RZero>> ELSE <<<<2, 5>>, <<3, 5>>>>,
           Append(trace, "Corrected: at least one tool required")>>

PlannerRun(c, intent_in, context, res) ==
    LET intent == NormIntent(intent_in)
        query == Strip(context.query)
        obj == res.data
        trace0 == Get(obj, "trace", <<>>)
        use_semantic == ForceSemantic(query, Get(obj, "use_semantic", query # <<>>))
        use_cf == ForceCf(c, intent, Get(obj, "use_cf", TRUE))
        trace1 == IF HybridSearch(c, intent)
                  THEN Append(trace0, "Hybrid enforcement: search requires CF + semantic")
                  ELSE trace0
        x_cf == Get(obj, "weight_cf", PyFloat(IF use_cf THEN <<2, 5>> ELSE RZero))
        x_sem == Get(obj, "weight_semantic", PyFloat(IF use_semantic THEN <<3, 5>> ELSE RZero))
    IN  IF FloatRaises(x_cf) \/ FloatRaises(x_sem)
        THEN Raised
        ELSE LET r == ResolveWeights(c, intent, query, use_cf, use_semantic,
                                     <<Float(x_cf), Float(x_sem)>>, trace1)
             IN Returned([ use_cf |-> r[1],
                           use_semantic |-> r[2],
                           weight_cf |-> r[3][1],
                           weight_semantic |-> r[3][2],
                           trace |-> r[4] \o res.trace \o <<"openai_planner_v2">> ])

----------------------------------------------------------------------------
(* Requests and advisory answers the runs are drawn from *)

QEmpty == <<>>
QBlank == <<" ", " ">>
QSciFi == <<"s", "c", "i", "f", "i">>
QKids == <<"K", "i", "d", "s", " ">>
Queries == {QEmpty, QBlank, QSciFi, QKids}

\* intent strings reaching the planner: IntentAgent returns str() of whatever
\* the reasoning service proposed when no hard guard applies
IntentStrings == {"search", " Search", "explore", ""}

AdvisedWeights ==
    {PyFloat(r) : r \in {<<-1, 2>>, RZero, <<1, 10>>, <<1, 2>>, <<3, 2>>, NaN}} \cup {PyStr}

PlanAdvice ==
    { a @@ b @@ c @@ d @@ e :
        a \in OptKey("use_cf", BOOLEAN),
        b \in OptKey("use_semantic", BOOLEAN),
        c \in OptKey("weight_cf", AdvisedWeights),
        d \in OptKey("weight_semantic", AdvisedWeights),
        e \in OptKey("trace", {<<"advisory_reason">>}) }

Configs == {[DefaultCfg EXCEPT !.enforce_hybrid_for_search = e] : e \in BOOLEAN}

NoState == EmptyDict
NoArgs == EmptyDict
NoRet == EmptyDict

----------------------------------------------------------------------------
(* Unit run of PlannerAgent.run over every intent, query, configuration and
   run of the reasoning service *)

PlannerInit ==
    /\ pc = "call"
    /\ cfg \in Configs
    /\ state = NoState
    /\ args \in [ intent : IntentStrings,
                  context : {[query |-> q] : q \in Queries},
                  calls : ServiceRuns(PlanAdvice) ]
    /\ ret = NoRet

PlannerResult ==
    PlannerRun(cfg, args.intent, args.context, GenerateJson(args.calls, AgentMaxRetries))

PlannerReturns ==
    /\ pc = "call"
    /\ ~PlannerResult.raised
    /\ pc' = "returned"
    /\ ret' = PlannerResult.value
    /\ UNCHANGED <<cfg, state, args>>

PlannerRaises ==
    /\ pc = "call"
    /\ PlannerResult.raised
    /\ pc' = "raised"
    /\ UNCHANGED <<cfg, state, args, ret>>

SpecPlanner == PlannerInit /\ [][PlannerReturns \/ PlannerRaises]_vars

\* what the reasoning service answered in this unit run (res["data"])
Advice == GenerateJson(args.calls, AgentMaxRetries).data

Advised(k, v) == k \in DOMAIN Advice /\ Advice[k] = v

\* |a - b| within the floating tolerance of a weight sum
Tolerance == <<1, 1000000>>
Near(a, b) == RLe(RSub(a, b), Tolerance) /\ RLe(RSub(b, a), Tolerance)

----------------------------------------------------------------------------
(* Claims about the Weight Resolver (SpecPlanner) *)

\* C5: every Plan returned by PlannerAgent.run with both tools active has
\* weight_cf + weight_semantic == 1 within tolerance, for every advisory
\* proposal, intent, query and setting of hybrid enforcement.
C5_WeightsSumToOne ==
    (pc = "returned" /\ ret.use_cf /\ ret.use_semantic)
        => Near(RAdd(ret.weight_cf, ret.weight_semantic), ROne)

\* C6: for every request whose query is non-empty after trimming, the returned
\* Plan has use_semantic == true, whatever the proposal, intent and configuration.
C6_QueryForcesSemantic ==
    (pc = "returned" /\ Strip(args.context.query) # <<>>) => ret.use_semantic = TRUE

\* C6 witness: a Plan returned for a non-empty query although the proposal
\* switched the semantic tool off.
C6_Witness ==
    /\ pc = "returned"
    /\ Strip(args.context.query) # <<>>
    /\ Advised("use_semantic", FALSE)
    /\ ret.use_semantic = TRUE

\* C7: for intent "search" under hybrid enforcement the returned Plan has
\* use_cf == true and weight_cf >= min_cf_weight, for every proposal and for
\* empty and non-empty queries.
C7_SearchKeepsCfShare ==
    (pc = "returned" /\ cfg.enforce_hybrid_for_search /\ NormIntent(args.intent) = "search")
        => (ret.use_cf = TRUE /\ RLe(cfg.min_cf_weight, ret.weight_cf))

\* C24: whenever hybrid enforcement is on and the intent is "search", a
\* "search" proposed by the reasoning service for a request with an empty query
\* included, the returned Plan has use_cf == true and use_semantic == true.
C24_HybridForcesBothTools ==
    (pc = "returned" /\ cfg.enforce_hybrid_for_search /\ NormIntent(args.intent) = "search")
        => (ret.use_cf = TRUE /\ ret.use_semantic = TRUE)

\* the half of C24 the code does enforce: the behavioural tool is active
C24_HybridForcesCf ==
    (pc = "returned" /\ cfg.enforce_hybrid_for_search /\ NormIntent(args.intent) = "search")
        => ret.use_cf = TRUE

\* the Plan trace holds entry e
Traced(e) == \E i \in DOMAIN ret.trace : ret.trace[i] = e

\* C25: when the proposal selected semantic-only (use_cf false, use_semantic
\* true) for a search intent under hybrid enforcement, the returned Plan has
\* use_cf == true, weight_cf exactly the configured minimum share and
\* weight_semantic == 1 - that share, whatever weight_cf the proposal carried,
\* and the Plan trace records the correction.
C25_SemanticOnlyGetsMinShare ==
    ( /\ pc = "returned"
      /\ cfg.enforce_hybrid_for_search
      /\ NormIntent(args.intent) = "search"
      /\ Advised("use_cf", FALSE)
      /\ Advised("use_semantic", TRUE) )
        => /\ ret.use_cf = TRUE
           /\ ret.weight_cf = cfg.min_cf_weight
           /\ ret.weight_semantic = RSub(ROne, cfg.min_cf_weight)
           /\ \/ Traced("Corrected: CF re-enabled for hybrid search")
              \/ Traced("Hybrid enforcement: search requires CF + semantic")

\* the correction branch of the four-way split is never taken: its entry is
\* in no returned Plan
C25_CorrectionBranchDead ==
    pc = "returned" => ~Traced("Corrected: CF re-enabled for hybrid search")

\* the entries PlannerAgent.run writes when it enforces a hard rule
CorrectionEntries ==
    { "Hybrid enforcement: search requires CF + semantic",
      "Corrected: CF re-enabled for hybrid search",
      "Corrected: at least one tool required" }

\* a hard rule overrode the proposal: a flag of the returned Plan is not the
\* proposed one, or a proposed weight_cf below the minimum share was raised
PlanCorrected ==
    \/ "use_cf" \in DOMAIN Advice /\ Advice.use_cf # ret.use_cf
    \/ "use_semantic" \in DOMAIN Advice /\ Advice.use_semantic # ret.use_semantic
    \/ /\ HybridSearch(cfg, NormIntent(args.intent))
       /\ ret.use_semantic
       /\ "weight_cf" \in DOMAIN Advice
       /\ RLt(Float(Advice.weight_cf), cfg.min_cf_weight)

\* C26: every correction the Weight Resolver makes to the proposal (query
\* forcing use_semantic, search forcing use_cf, minimum-share clamping, the
\* at-least-one-tool correction) leaves an entry in the Plan trace, and no
\* correction entry is written when the proposal already complied.
C26_CorrectionsTraced ==
    pc = "returned" => (PlanCorrected <=> \E e \in CorrectionEntries : Traced(e))

\* the query rule corrects without a word: use_semantic proposed false, returned
\* true, and the trace holds the planner's closing entry only
C26_SilentQueryForceReached ==
    /\ pc = "returned"
    /\ Advised("use_semantic", FALSE)
    /\ ret.use_semantic = TRUE
    /\ ret.trace = <<"openai_planner_v2">>

\* the hybrid entry is written although the proposal complied in full
C26_EntryWithoutCorrectionReached ==
    /\ pc = "returned"
    /\ Advice = [use_cf |-> TRUE, use_semantic |-> TRUE,
                 weight_cf |-> PyFloat(<<1, 2>>), weight_semantic |-> PyFloat(<<1, 2>>)]
    /\ ret = [use_cf |-> TRUE, use_semantic |-> TRUE,
              weight_cf |-> <<1, 2>>, weight_semantic |-> <<1, 2>>,
              trace |-> <<"Hybrid enforcement: search requires CF + semantic",
                          "openai_planner_v2">>]

\* the one correction that is always logged: no tool proposed
C26_AtLeastOneToolTraced ==
    (pc = "returned" /\ Advised("use_cf", FALSE) /\ Advised("use_semantic", FALSE)
       /\ Strip(args.context.query) = <<>> /\ ~HybridSearch(cfg, NormIntent(args.intent)))
        => Traced("Corrected: at least one tool required")

\* C12: PlannerAgent.run never raises for a malformed advisory proposal: for
\* every advisory mapping, one whose weight_cf or weight_semantic is present
\* but not a number included, it returns a Plan.
C12_MalformedProposalAbsorbed ==
    (pc # "call" /\ (Advised("weight_cf", PyStr) \/ Advised("weight_semantic", PyStr)))
        => pc = "returned"

\* the reasoning service gave no mapping in this unit run (ok=false, data={})
ServiceFailed == ~GenerateJson(args.calls, AgentMaxRetries).ok

\* C15: when the reasoning service always fails, the returned Plan satisfies
\* every hard rule from the deterministic defaults alone: a non-empty query
\* gives both tools with weights 0.4/0.6, no query gives CF only with weights
\* 1/0, and search under hybrid enforcement keeps weight_cf >= min_cf_weight.
C15_DefaultsSatisfyHardRules ==
    (pc # "call" /\ ServiceFailed)
        => /\ pc = "returned"
           /\ ret.use_cf = TRUE
           /\ Strip(args.context.query) # <<>>
                 => /\ ret.use_semantic = TRUE
                    /\ ret.weight_cf = <<2, 5>>
                    /\ ret.weight_semantic = <<3, 5>>
           /\ Strip(args.context.query) = <<>>
                 => /\ ret.use_semantic = FALSE
                    /\ ret.weight_cf = ROne
                    /\ ret.weight_semantic = RZero
           /\ HybridSearch(cfg, NormIntent(args.intent))
                 => RLe(cfg.min_cf_weight, ret.weight_cf)
           /\ (ret.use_cf /\ ret.use_semantic)
                 => RAdd(ret.weight_cf, ret.weight_semantic) = ROne

\* C15 witness: both calls of the reasoning service failed for a search with a
\* query under hybrid enforcement, and the Plan holds the defaults 0.4/0.6.
C15_Witness ==
    /\ pc = "returned"
    /\ ServiceFailed
    /\ args.calls = <<CallRaises, CallUnparsable>>
    /\ args.context.query = QSciFi
    /\ HybridSearch(cfg, NormIntent(args.intent))
    /\ ret.weight_cf = <<2, 5>>
    /\ ret.weight_semantic = <<3, 5>>

\* C15 second case: the service failed for a request without a query; the
\* Plan is CF only.
C15_NoQueryReached ==
    /\ pc = "returned"
    /\ ServiceFailed
    /\ args.context.query = QBlank
    /\ ret.use_semantic = FALSE
    /\ ret.weight_cf = ROne

----------------------------------------------------------------------------
(* The catalogue: movie_map (title, genres) and ItemStats.popularity_norm.
   A genres string is held as the list of its "|"-separated tokens, which is
   what str.split("|") makes of it ("" splits to one empty token). *)

NumItems == 4
Items == 1..NumItems

\* movie_map.get(mid, {"title": "Unknown", "genres": ""})
MovieMeta(mid) ==
    CASE mid = 1 -> [title |-> "Toy Story", genres |-> <<"Children", "Comedy">>]
      [] mid = 2 -> [title |-> "Babe", genres |-> <<"Children">>]
      [] mid = 3 -> [title |-> "Blade Runner",
                     genres |-> <<"Action", "Drama", "Sci-Fi", "Thriller">>]
      [] OTHER -> [title |-> "Unknown", genres |-> <<"">>]

\* ItemStats.get_popularity: popularity_norm.get(movie_id, 0.0)
GetPopularity(mid) ==
    CASE mid = 1 -> <<9, 10>>
      [] mid = 2 -> <<3, 10>>
      [] mid = 3 -> <<1, 10>>
      [] OTHER -> RZero

\* token.strip() on the catalogue's genre tokens (none carries whitespace)
StripToken(t) == t

\* token.lower() on the catalogue's genre tokens
LowerToken(t) ==
    CASE t = "Children" -> "children"
      [] t = "Comedy" -> "comedy"
      [] t = "Action" -> "action"
      [] t = "Drama" -> "drama"
      [] t = "Sci-Fi" -> "sci-fi"
      [] t = "Thriller" -> "thriller"
      [] OTHER -> t

\* the "signals" breakdown of a recommendation
Signals(cf, sem, utility, baseline, advantage, novelty) ==
    [ cf |-> cf, semantic |-> sem, utility |-> utility,
      baseline_popularity |-> baseline, advantage |-> advantage,
      novelty_boost |-> novelty ]

\* one ranked recommendation as RankerV2 emits it
MakeRec(mid, score, sig) ==
    [ movieId |-> mid,
      title |-> MovieMeta(mid).title,
      genres |-> MovieMeta(mid).genres,
      score |-> score,
      signals |-> sig ]

----------------------------------------------------------------------------
(* CriticAgent.run *)

\* recs[:n]
Take(seq, n) == SubSeq(seq, 1, IF n < Len(seq) THEN n ELSE Len(seq))

RECURSIVE RSum(_)
RSum(seq) == IF seq = <<>> THEN RZero ELSE RAdd(Head(seq), RSum(Tail(seq)))

RECURSIVE Flatten(_)
Flatten(seqs) == IF seqs = <<>> THEN <<>> ELSE Head(seqs) \o Flatten(Tail(seqs))

\* every genre token of recs[:topn], stripped, empty tokens included
GenreTokens(recs, topn) ==
    LET top == Take(recs, topn)
    IN Flatten([i \in 1..Len(top) |->
                  [j \in 1..Len(top[i].genres) |-> StripToken(top[i].genres[j])]])

\* _genre_diversity: the number of distinct non-empty tokens
GenreDiversity(recs, topn) ==
    LET toks == GenreTokens(recs, topn)
    IN Cardinality({toks[i] : i \in 1..Len(toks)} \ {""})

\* _mean_popularity: sum(vals) / max(len(vals), 1)
MeanPopularity(recs, topn) ==
    LET top == Take(recs, topn)
        vals == [i \in 1..Len(top) |-> top[i].signals.baseline_popularity]
    IN RDiv(RSum(vals), <<IF Len(vals) > 1 THEN Len(vals) ELSE 1, 1>>)

ChildrenRatio(recs, topn) ==
    LET toks == GenreTokens(recs, topn)
        n == Cardinality({i \in 1..Len(toks) : LowerToken(toks[i]) = "children"})
    IN Rat(n, IF Len(toks) > 1 THEN Len(toks) ELSE 1)

KidKeywords ==
    { <<"k", "i", "d">>, <<"k", "i", "d", "s">>, <<"f", "a", "m", "i", "l", "y">>,
      <<"c", "h", "i", "l", "d", "r", "e", "n">>, <<"c", "h", "i", "l", "d">> }

ChildrenAllowed(context) == \E kw \in KidKeywords : Contains(kw, Lower(context.query))

\* 1) the popularity guardrail
PopularityCheck(c, recs, v) ==
    IF RLt(c.popularity_mean_threshold, MeanPopularity(recs, c.critic_topn))
    THEN [ needs_rerank |-> TRUE,
           adjustments |->
               ("novelty_lambda" :> RMin(<<7, 20>>, RAdd(c.novelty_lambda, <<1, 10>>)))
               @@ v.adjustments,
           trace |-> Append(v.trace, "mean popularity too high") ]
    ELSE v

\* a diversity guardrail that records its adjustment without asking for a
\* rerank; C32 tells it from the code's
DiversityCheckAdjustsOnly(c, recs, v) ==
    IF GenreDiversity(recs, c.critic_topn) < c.genre_diversity_min_unique
    THEN [ needs_rerank |-> v.needs_rerank,
           adjustments |-> ("diversity_boost" :> <<1, 10>>) @@ v.adjustments,
           trace |-> Append(v.trace, "Genre diversity too low") ]
    ELSE v

\* 1) the genre-diversity guardrail
DiversityCheck(c, recs, v) ==
    IF GenreDiversity(recs, c.critic_topn) < c.genre_diversity_min_unique
    THEN [ needs_rerank |-> TRUE,
           adjustments |-> ("diversity_boost" :> <<1, 10>>) @@ v.adjustments,
           trace |-> Append(v.trace, "Genre diversity too low") ]
    ELSE v

\* 2) the hard maturity veto
MaturityVeto(c, context, recs, v) ==
    IF RLt(<<3, 10>>, ChildrenRatio(recs, c.critic_topn)) /\ ~ChildrenAllowed(context)
    THEN [ needs_rerank |-> TRUE,
           adjustments |-> ("exclude_genres" :> <<"Children">>) @@ v.adjustments,
           trace |-> Append(v.trace, "hard_veto_children_content") ]
    ELSE v

\* the verdict of the deterministic guardrails, before the critique is asked for
HardVerdict(c, context, recs) ==
    MaturityVeto(c, context, recs,
        DiversityCheck(c, recs,
            PopularityCheck(c, recs,
                [needs_rerank |-> FALSE, adjustments |-> EmptyDict, trace |-> <<>>])))

\* the "adjustments" value of a critique: a mapping, or something that is none
AdjDict(d) == [isdict |-> TRUE, d |-> d]
AdjNotDict == [isdict |-> FALSE, d |-> EmptyDict]

\* adjustments.update(llm_adj): on a key both hold, the updating value stays
MergeAdjustments(adjustments, llm_adj) ==
    IF llm_adj.isdict THEN llm_adj.d @@ adjustments ELSE adjustments

\* mutant of MergeNeeds: the advisory critique has the last word
MergeNeedsAdvisoryWins(needs_rerank, llm_needs) == llm_needs

\* needs_rerank or llm_needs
MergeNeeds(needs_rerank, llm_needs) == needs_rerank \/ llm_needs

CriticRun(c, intent_in, context, recs, res) ==
    LET hard == HardVerdict(c, context, recs)
        data == res.data
        llm_needs == Get(data, "needs_rerank", FALSE)
        llm_adj == Get(data, "adjustments", AdjDict(EmptyDict))
        llm_trace == Get(data, "trace", <<>>)
    IN [ needs_rerank |-> MergeNeeds(hard.needs_rerank, llm_needs),
         adjustments |-> MergeAdjustments(hard.adjustments, llm_adj),
         trace |-> hard.trace \o llm_trace \o res.trace \o <<"openai_critic_v2">> ]

----------------------------------------------------------------------------
(* RankerV2.__call__ *)

RECURSIVE SortedIds(_)
SortedIds(S) ==
    IF S = {} THEN <<>>
    ELSE LET m == CHOOSE x \in S : \A y \in S : x <= y
         IN <<m>> \o SortedIds(S \ {m})

Ids(rows) == {rows[i].movieId : i \in DOMAIN rows}

\* the score a source gives an item; a missing signal is filled with 0.0
ScoreIn(rows, mid) ==
    IF mid \in Ids(rows)
    THEN rows[CHOOSE i \in DOMAIN rows : rows[i].movieId = mid].score
    ELSE RZero

\* the candidate pool: an outer merge on movieId (rows in key order) when both
\* sources have rows, else the rows of the one source that has, in its order
CandidatePool(cf, sem) ==
    IF cf # <<>> /\ sem # <<>>
    THEN LET ids == SortedIds(Ids(cf) \cup Ids(sem))
         IN [i \in DOMAIN ids |->
               [movieId |-> ids[i], cf_score |-> ScoreIn(cf, ids[i]),
                semantic_score |-> ScoreIn(sem, ids[i])]]
    ELSE IF cf # <<>>
    THEN [i \in DOMAIN cf |->
            [movieId |-> cf[i].movieId, cf_score |-> cf[i].score, semantic_score |-> RZero]]
    ELSE [i \in DOMAIN sem |->
            [movieId |-> sem[i].movieId, cf_score |-> RZero, semantic_score |-> sem[i].score]]

RECURSIVE RMaxOf(_)
RMaxOf(seq) ==
    IF Len(seq) = 1 THEN seq[1] ELSE RMax(RMaxOf(SubSeq(seq, 1, Len(seq) - 1)), seq[Len(seq)])

\* mutant of NormalizeColumn: the raw scores are used as they are
NormalizeColumnSkipped(col) == col

\* "normalize signals": divide a column by its maximum when that is above 0
NormalizeColumn(col) ==
    LET mx == RMaxOf(col)
    IN IF RLt(RZero, mx) THEN [i \in DOMAIN col |-> RDiv(col[i], mx)] ELSE col

\* utility, baseline, advantage, novelty boost and final score of one row
ScoreRow(c, mid, cf_norm, sem_norm, w_cf, w_sem) ==
    LET utility == RAdd(RMul(w_cf, cf_norm), RMul(w_sem, sem_norm))
        baseline == GetPopularity(mid)
        advantage == RSub(utility, RMul(c.advantage_alpha, baseline))
        novelty == RMul(c.novelty_lambda, RSub(ROne, baseline))
    IN MakeRec(mid, RAdd(advantage, novelty),
               Signals(cf_norm, sem_norm, utility, baseline, advantage, novelty))

\* where a row goes among rows already in descending score order: behind
\* every row whose score is not lower
InsertByScore(sorted, r) ==
    LET ahead == {i \in DOMAIN sorted : ~RLt(sorted[i].score, r.score)}
        n == Cardinality(ahead)
    IN SubSeq(sorted, 1, n) \o <<r>> \o SubSeq(sorted, n + 1, Len(sorted))

\* sort_values("score", ascending=False)
RECURSIVE SortByScore(_)
SortByScore(rows) ==
    IF rows = <<>> THEN <<>>
    ELSE InsertByScore(SortByScore(SubSeq(rows, 1, Len(rows) - 1)), rows[Len(rows)])

RankerCall(c, st) ==
    LET cf == Get(st, "cf", <<>>)
        sem == Get(st, "sem", <<>>)
    IN IF cf = <<>> /\ sem = <<>> THEN <<>>
       ELSE LET df == CandidatePool(cf, sem)
                cf_norm == NormalizeColumn([i \in DOMAIN df |-> df[i].cf_score])
                sem_norm == NormalizeColumn([i \in DOMAIN df |-> df[i].semantic_score])
                plan == Get(st, "plan", EmptyDict)
                w_cf == Get(plan, "weight_cf", <<2, 5>>)
                w_sem == Get(plan, "weight_semantic", <<3, 5>>)
                scored == [i \in DOMAIN df |->
                             ScoreRow(c, df[i].movieId, cf_norm[i], sem_norm[i], w_cf, w_sem)]
            IN Take(SortByScore(scored), c.final_k)

----------------------------------------------------------------------------
(* IntentAgent.run *)

\* the hard guards on the intent
\* mutant of GuardIntent: the time budget is looked at before the novelty tolerance
GuardIntentMinutesFirst(context, advised) ==
    IF Strip(context.query) # <<>> THEN "search"
    ELSE IF "available_minutes" \in DOMAIN context
            /\ RLe(context.available_minutes, <<45, 1>>) THEN "quick_watch"
    ELSE IF "novelty_tolerance" \in DOMAIN context
            /\ RLt(context.novelty_tolerance, <<3, 10>>) THEN "comfort"
    ELSE advised

\* "HARD GUARDS (deterministic enforcement)"
GuardIntent(context, advised) ==
    IF Strip(context.query) # <<>> THEN "search"
    ELSE IF "novelty_tolerance" \in DOMAIN context
            /\ RLt(context.novelty_tolerance, <<3, 10>>) THEN "comfort"
    ELSE IF "available_minutes" \in DOMAIN context
            /\ RLe(context.available_minutes, <<45, 1>>) THEN "quick_watch"
    ELSE advised

\* float(data.get("confidence", 0.6)) with 0.6 on an exception, then the clamp
GuardConfidence(data) ==
    LET x == Get(data, "confidence", PyFloat(<<3, 5>>))
        v == IF FloatRaises(x) THEN <<3, 5>> ELSE Float(x)
    IN RMax(RZero, RMin(ROne, v))

IntentRun(context, res) ==
    LET data == IF res.ok THEN res.data ELSE EmptyDict
        trace == Get(data, "trace", <<>>) \o res.trace \o <<"intent_agent_openai">>
        confidence == GuardConfidence(data)
        asked == Get(data, "needs_clarification", FALSE)
        question == Get(data, "clarification_question", "")
        needs == asked \/ RLt(confidence, <<1, 2>>)
        fill == needs /\ question = ""
    IN [ intent |-> GuardIntent(context, Get(data, "intent", "explore")),
         confidence |-> confidence,
         needs_clarification |-> needs,
         clarification_question |-> IF fill THEN "default question" ELSE question,
         trace |-> IF fill THEN Append(trace, "default_clarification_applied") ELSE trace ]

----------------------------------------------------------------------------
(* ExplainerAgent.run *)

\* a JSON value met where the code expects a string or a list of strings: a
\* string, a list of values, or something else (a number, null)
PyText(t) == [isstr |-> TRUE, islist |-> FALSE, text |-> t, items |-> <<>>]
PyList(l) == [isstr |-> FALSE, islist |-> TRUE, text |-> "", items |-> l]
PyNumber == [isstr |-> FALSE, islist |-> FALSE, text |-> "", items |-> <<>>]

IsStr(v) == v.isstr

\* [b for b in bullets if isinstance(b, str)]
StrItems(items) ==
    LET strs == SelectSeq(items, IsStr)
    IN [i \in DOMAIN strs |-> strs[i].text]

\* mutant of PadBullets: the bullets are left as they came
PadBulletsSkipped(bullets) == bullets

\* "Ensure exactly 3 bullets (safe padding)"
PadBullets(bullets) ==
    Take(bullets \o <<"", "", "">>, 3)

ExplainerRun(intent, plan, recs, res) ==
    LET data == IF res.ok THEN res.data ELSE EmptyDict
        one_liner == Get(data, "one_liner", PyText(""))
        bullets == Get(data, "bullets", PyList(<<>>))
    IN [ one_liner |-> IF one_liner.isstr THEN one_liner.text ELSE "",
         bullets |-> PadBullets(IF bullets.islist THEN StrItems(bullets.items) ELSE <<>>) ]

----------------------------------------------------------------------------
(* Unit run of CriticAgent.run over recommendation lists, queries, top-N
   settings and runs of the reasoning service *)

MaxRecs == 3
SmallTopN == 2

\* a recommendation of item mid with no retrieval signal
PlainRec(mid) ==
    MakeRec(mid, RZero, Signals(RZero, RZero, RZero, GetPopularity(mid), RZero, RZero))

\* lists of up to MaxRecs distinct items
ItemLists ==
    { s \in UNION {[1..n -> Items] : n \in 0..MaxRecs} :
        \A i, j \in DOMAIN s : i # j => s[i] # s[j] }

AdvisedAdjustments ==
    { AdjDict(a @@ b @@ c @@ d) :
        a \in OptKey("novelty_lambda", {<<1, 20>>}),
        b \in OptKey("diversity_boost", {<<1, 2>>}),
        c \in OptKey("exclude_genres", {<<>>, <<"Horror">>}),
        d \in OptKey("weight_cf_delta", {PyFloat(<<-1, 2>>)}) }
    \cup {AdjNotDict}

CritiqueAdvice ==
    { a @@ b : a \in OptKey("needs_rerank", BOOLEAN),
               b \in OptKey("adjustments", AdvisedAdjustments) }

\* the default top-N and a small one, and a minimum of two distinct genres next
\* to the default of four
CriticConfigs ==
    {[DefaultCfg EXCEPT !.critic_topn = n] : n \in {CriticTopN, SmallTopN}}
    \cup {[DefaultCfg EXCEPT !.genre_diversity_min_unique = 2]}

CriticInit ==
    /\ pc = "call"
    /\ cfg \in CriticConfigs
    /\ state = NoState
    /\ args \in [ intent : {"explore"},
                  context : {[query |-> q] : q \in {QEmpty, QSciFi, QKids}},
                  recs : {[i \in DOMAIN s |-> PlainRec(s[i])] : s \in ItemLists},
                  calls : ServiceRuns(CritiqueAdvice) ]
    /\ ret = NoRet

CriticReturns ==
    /\ pc = "call"
    /\ pc' = "returned"
    /\ ret' = CriticRun(cfg, args.intent, args.context, args.recs,
                        GenerateJson(args.calls, AgentMaxRetries))
    /\ UNCHANGED <<cfg, state, args>>

SpecCritic == CriticInit /\ [][CriticReturns]_vars

\* the verdict of the deterministic checks alone in this unit run
Hard == HardVerdict(cfg, args.context, args.recs)

----------------------------------------------------------------------------
(* Claims about the Guardrail Evaluator (SpecCritic) *)

\* C9: whenever more than 30% of the genre tokens of the top-K are "Children"
\* and the query holds no kid/family keyword, the returned verdict has
\* needs_rerank == true and its adjustments hold an exclude-genre entry naming
\* "Children", whatever the advisory critique returns.
C9_MaturityVetoStands ==
    ( /\ pc = "returned"
      /\ RLt(<<3, 10>>, ChildrenRatio(args.recs, cfg.critic_topn))
      /\ ~ChildrenAllowed(args.context) )
        => /\ ret.needs_rerank = TRUE
           /\ "exclude_genres" \in DOMAIN ret.adjustments
           /\ \E i \in DOMAIN ret.adjustments.exclude_genres :
                  ret.adjustments.exclude_genres[i] = "Children"

\* the three deterministic checks of this unit run, each on its own
PopularityFires ==
    RLt(cfg.popularity_mean_threshold, MeanPopularity(args.recs, cfg.critic_topn))
DiversityFires ==
    GenreDiversity(args.recs, cfg.critic_topn) < cfg.genre_diversity_min_unique
VetoFires ==
    RLt(<<3, 10>>, ChildrenRatio(args.recs, cfg.critic_topn)) /\ ~ChildrenAllowed(args.context)

\* C32: when the reasoning service fails at the Critique stage (ok=false, empty
\* data) CriticAgent.run returns, and the verdict's needs_rerank and adjustments
\* are exactly those of the deterministic checks: needs_rerank is true if and
\* only if one of the popularity, diversity and maturity checks fired, each of
\* them being enough, and the adjustments hold the fired checks' keys only.
C32_CriticSafeDefault ==
    (pc = "returned" /\ ServiceFailed)
        => /\ ret.needs_rerank = (PopularityFires \/ DiversityFires \/ VetoFires)
           /\ DOMAIN ret.adjustments =
                 {k \in {"novelty_lambda"} : PopularityFires}
                 \cup {k \in {"diversity_boost"} : DiversityFires}
                 \cup {k \in {"exclude_genres"} : VetoFires}
           /\ PopularityFires =>
                 ret.adjustments.novelty_lambda = RMin(<<7, 20>>, RAdd(cfg.novelty_lambda, <<1, 10>>))
           /\ DiversityFires => ret.adjustments.diversity_boost = <<1, 10>>
           /\ VetoFires => ret.adjustments.exclude_genres = <<"Children">>

\* no run of the unit specification ends anywhere but in a returned verdict
C32_CriticAlwaysReturns == pc \in {"call", "returned"}

\* C32 witness: the service failed and the popularity check alone fired: the
\* verdict is needs_rerank with the novelty_lambda adjustment and nothing else.
C32_Witness ==
    /\ pc = "returned"
    /\ ServiceFailed
    /\ PopularityFires /\ ~DiversityFires /\ ~VetoFires
    /\ ret.needs_rerank = TRUE
    /\ DOMAIN ret.adjustments = {"novelty_lambda"}

\* the diversity check alone, the maturity veto alone, and no check at all
C32_DiversityAloneReached ==
    /\ pc = "returned"
    /\ ServiceFailed
    /\ ~PopularityFires /\ DiversityFires /\ ~VetoFires
    /\ ret.needs_rerank = TRUE
    /\ DOMAIN ret.adjustments = {"diversity_boost"}

C32_VetoAloneReached ==
    /\ pc = "returned"
    /\ ServiceFailed
    /\ ~PopularityFires /\ ~DiversityFires /\ VetoFires
    /\ ret.needs_rerank = TRUE
    /\ DOMAIN ret.adjustments = {"exclude_genres"}

C32_NoCheckFiredReached ==
    /\ pc = "returned"
    /\ ServiceFailed
    /\ ~PopularityFires /\ ~DiversityFires /\ ~VetoFires
    /\ ret.needs_rerank = FALSE
    /\ ret.adjustments = EmptyDict

\* C33, the critic's part alone: on an empty recommendation list the diversity
\* check fires under either configured minimum, whatever the critique advised.
C33_EmptyListFiresDiversity ==
    (pc = "returned" /\ args.recs = <<>>)
        => /\ DiversityFires
           /\ ret.needs_rerank = TRUE
           /\ "diversity_boost" \in DOMAIN ret.adjustments

\* C10: every adjustment key a deterministic hard rule produced keeps the
\* hard rule's value in the returned verdict, even when the advisory critique
\* holds the same key with another value.
C10_HardKeysRetained ==
    pc = "returned"
        => \A k \in DOMAIN Hard.adjustments :
               k \in DOMAIN ret.adjustments /\ ret.adjustments[k] = Hard.adjustments[k]

\* C11: the verdict's needs_rerank is the OR of the deterministic checks'
\* result and the advisory critique's needs_rerank: a deterministic check that
\* fired keeps it true whatever the critique says, and the critique can only
\* turn it from false to true.
C11_NeedsRerankIsOr ==
    pc = "returned"
        => /\ ret.needs_rerank = (Hard.needs_rerank \/ Get(Advice, "needs_rerank", FALSE))
           /\ Hard.needs_rerank => ret.needs_rerank

\* C11 witness: a deterministic check fired, the advisory critique answered
\* needs_rerank false, and the verdict is true.
C11_Witness ==
    /\ pc = "returned"
    /\ Hard.needs_rerank
    /\ Advised("needs_rerank", FALSE)
    /\ ret.needs_rerank = TRUE

\* C11 second case: no deterministic check fired and the advisory critique
\* alone turned the verdict to true.
C11_AdvisoryAloneReached ==
    /\ pc = "returned"
    /\ ~Hard.needs_rerank
    /\ Advised("needs_rerank", TRUE)
    /\ ret.needs_rerank = TRUE

----------------------------------------------------------------------------
(* Unit run of OpenAIJSONClient.generate_json over every retry budget and
   every run of the reasoning service *)

MaxRetries == 2

\* output that parses, but to a JSON value that is no mapping (a list, a number)
CallNotMapping == [kind |-> "list", data |-> EmptyDict]

\* the mappings the service may answer with, the empty one included
ClientOutcomes ==
    {CallDict(d) : d \in {EmptyDict, [intent |-> "explore"]}} \cup {CallUnparsable, CallNotMapping, CallRaises}

\* args.calls[i] is what the i-th _call would come to, should it be made
ClientInit ==
    /\ pc = "call"
    /\ cfg = DefaultCfg
    /\ state = NoState
    /\ args \in [ max_retries : 0..MaxRetries,
                  calls : [1..(MaxRetries + 1) -> ClientOutcomes] ]
    /\ ret = NoRet

ClientReturns ==
    /\ pc = "call"
    /\ pc' = "returned"
    /\ ret' = GenerateJson(args.calls, args.max_retries)
    /\ UNCHANGED <<cfg, state, args>>

SpecClient == ClientInit /\ [][ClientReturns]_vars

\* the i-th call gave no mapping
CallFailed(i) == args.calls[i].kind # "dict"

\* C14: one generate_json invocation makes one initial call and at most
\* max_retries repair calls, stops at the first call whose output parses to a
\* mapping and returns ok=true with that mapping; if every attempt fails
\* (unparsable output or a raised transport error) it returns ok=false with
\* the empty mapping instead of raising.
C14_BoundedRepair ==
    pc = "returned"
        => /\ ret.ncalls >= 1
           /\ ret.ncalls <= 1 + args.max_retries
           /\ \A i \in 1..(ret.ncalls - 1) : CallFailed(i)
           /\ ret.ok => (~CallFailed(ret.ncalls) /\ ret.data = args.calls[ret.ncalls].data)
           /\ ~ret.ok => /\ ret.ncalls = 1 + args.max_retries
                         /\ CallFailed(ret.ncalls)
                         /\ ret.data = EmptyDict

\* C14 witness: the first call raised, both repairs failed, and the caller
\* got ok=false with the empty mapping after three calls.
C14_Witness ==
    /\ pc = "returned"
    /\ args.max_retries = 2
    /\ args.calls[1] = CallRaises
    /\ ~ret.ok
    /\ ret.ncalls = 3
    /\ ret.data = EmptyDict

\* C14 second case: a repair call succeeded and no further call was made.
C14_RepairSucceeded ==
    /\ pc = "returned"
    /\ args.max_retries = 2
    /\ ret.ok
    /\ ret.ncalls = 2
    /\ ret.data = [intent |-> "explore"]

----------------------------------------------------------------------------
(* Unit run of RankerV2.__call__, invoked twice on one state, over candidate
   lists as the retrieval tools return them: distinct items, best score first *)

MaxPool == 3
SmallFinalK == 1

\* the catalogue's items and one more that neither movie_map nor ItemStats knows
RankerItems == 1..(NumItems + 1)

CfScores == {<<4, 5>>, <<2, 5>>}
SemScores == {<<9, 10>>, <<3, 10>>}

Row(mid, score) == [movieId |-> mid, score |-> score]

\* the answers of a retrieval tool with n rows: equal scores in any order
ToolLists(scores, n) ==
    { r \in [1..n -> {Row(mid, sc) : mid \in RankerItems, sc \in scores}] :
        \A i, j \in 1..n :
            i < j => (r[i].movieId # r[j].movieId /\ ~RLt(r[i].score, r[j].score)) }

RankerPlans ==
    { [weight_cf |-> <<2, 5>>, weight_semantic |-> <<3, 5>>],
      [weight_cf |-> ROne, weight_semantic |-> RZero] }

\* the candidate lists of one state hold MaxPool rows at most between them
RankerInit ==
    /\ pc = "call"
    /\ cfg \in {[DefaultCfg EXCEPT !.final_k = k] : k \in {FinalK, SmallFinalK}}
    /\ \E n_cf \in 0..MaxPool :
         \E n_sem \in 0..(MaxPool - n_cf) :
           \E c \in ToolLists(CfScores, n_cf), m \in ToolLists(SemScores, n_sem) :
             \E p \in RankerPlans :
               state = [cf |-> c, sem |-> m, plan |-> p]
    /\ args = NoArgs
    /\ ret = <<>>

\* mutant of RankerInvocation: the normalised CF scores are written back into
\* the state's candidate list
RankerInvocationInPlace(next_pc) ==
    /\ pc' = next_pc
    /\ ret' = Append(ret, RankerCall(cfg, state))
    /\ state' = IF state.cf = <<>> THEN state
                ELSE LET norm == NormalizeColumn([i \in DOMAIN state.cf |-> state.cf[i].score])
                     IN [state EXCEPT !.cf = [i \in DOMAIN state.cf |->
                                                Row(state.cf[i].movieId, norm[i])]]
    /\ UNCHANGED <<cfg, args>>

\* one invocation: the ranker builds its frame from the state's lists and
\* writes nothing back
RankerInvocation(next_pc) ==
    /\ pc' = next_pc
    /\ ret' = Append(ret, RankerCall(cfg, state))
    /\ UNCHANGED <<cfg, state, args>>

RankerFirstCall == pc = "call" /\ RankerInvocation("called")

RankerSecondCall == pc = "called" /\ RankerInvocation("called_again")

SpecRanker == RankerInit /\ [][RankerFirstCall \/ RankerSecondCall]_vars

\* the candidate pool of this unit run, and its ranking under a cap that holds it all
PoolIds == Ids(state.cf) \cup Ids(state.sem)
FullRanking == RankerCall([cfg EXCEPT !.final_k = Cardinality(PoolIds)], state)

SameScore(a, b) == ~RLt(a.score, b.score) /\ ~RLt(b.score, a.score)

\* C17: the ranker's output is the pool sorted by final score descending, ties
\* between equal scores in ascending item id, truncated to the cap: it has
\* min(cap, pool size) entries, no excluded candidate outranks an included
\* one, and equal scores appear in ascending item id whatever order the
\* retrieval tools listed them in.
C17_SortedWithTieBreak ==
    pc = "called"
        => LET recs == ret[1] IN
           /\ Len(recs) = (IF cfg.final_k < Cardinality(PoolIds)
                           THEN cfg.final_k ELSE Cardinality(PoolIds))
           /\ \A i, j \in DOMAIN recs : i < j => ~RLt(recs[i].score, recs[j].score)
           /\ \A i \in DOMAIN recs, k \in DOMAIN FullRanking :
                  FullRanking[k].movieId \notin {recs[j].movieId : j \in DOMAIN recs}
                      => ~RLt(recs[i].score, FullRanking[k].score)
           /\ \A i, j \in DOMAIN recs :
                  (i < j /\ SameScore(recs[i], recs[j])) => recs[i].movieId < recs[j].movieId

\* C17 without the tie-break: length, descending order and truncation alone.
C17_SortedAndTruncated ==
    pc = "called"
        => LET recs == ret[1] IN
           /\ Len(recs) = (IF cfg.final_k < Cardinality(PoolIds)
                           THEN cfg.final_k ELSE Cardinality(PoolIds))
           /\ \A i, j \in DOMAIN recs : i < j => ~RLt(recs[i].score, recs[j].score)
           /\ \A i \in DOMAIN recs, k \in DOMAIN FullRanking :
                  FullRanking[k].movieId \notin {recs[j].movieId : j \in DOMAIN recs}
                      => ~RLt(recs[i].score, FullRanking[k].score)

----------------------------------------------------------------------------
(* AgenticGraph.build: the nodes and edges of the request pipeline *)

Put(st, k, v) == (k :> v) @@ st

\* mutant of AppendTrace: the log is started afresh with the event
AppendTraceAfresh(st, event) == Put(st, "trace_log", <<event>>)

\* _append_trace: the state with one more event at the end of its trace_log
AppendTrace(st, event) == Put(st, "trace_log", Append(Get(st, "trace_log", <<>>), event))

\* (state.get("intent_obj") or {}).get("intent", "explore")
StateIntent(st) == Get(Get(st, "intent_obj", EmptyDict), "intent", "explore")

\* mutant of ShouldRerank: the router ignores the verdict
ShouldRerankAlways(st) == "rerank"

\* should_rerank: the router of the conditional edge out of "critic"
ShouldRerank(st) ==
    IF Get(Get(st, "critic", EmptyDict), "needs_rerank", FALSE) THEN "rerank" ELSE "explain"

\* mutant of NextNode: the edge out of "rerank" leads back to "critic"
NextNodeLoops(node, st) ==
    CASE node = "intent" -> "plan"
      [] node = "plan" -> "retrieve"
      [] node = "retrieve" -> "rank"
      [] node = "rank" -> "critic"
      [] node = "critic" -> ShouldRerank(st)
      [] node = "rerank" -> "critic"
      [] node = "explain" -> "done"

\* the edges of the graph: the node that runs after `node` returned state st
NextNode(node, st) ==
    CASE node = "intent" -> "plan"
      [] node = "plan" -> "retrieve"
      [] node = "retrieve" -> "rank"
      [] node = "rank" -> "critic"
      [] node = "critic" -> ShouldRerank(st)
      [] node = "rerank" -> "explain"
      [] node = "explain" -> "done"

\* an exception leaving a node ends invoke() at the caller
Escapes(node, exc) ==
    /\ pc' = "raised"
    /\ ret' = [node |-> node, exc |-> exc]
    /\ UNCHANGED <<cfg, state, args>>

\* a node returned st: the graph moves along its edge
Moves(node, st) ==
    /\ state' = st
    /\ pc' = NextNode(node, st)
    /\ UNCHANGED <<cfg, args, ret>>

\* mutant of CallsSemantic: the tool is called whenever the Plan marks it active
CallsSemanticOnAnyQuery(use_sem, query) == use_sem

\* retrieve_node calls the semantic tool: "if use_sem:" and then "if query:"
CallsSemantic(use_sem, query) == use_sem /\ query # <<>>

\* a retrieval tool's answer: the rows (movieId, score) it found, or an exception
ToolRows(rows) == [raised |-> FALSE, rows |-> rows]
ToolRaises == [raised |-> TRUE, rows |-> <<>>]

\* the weights of the re-rank: deltas added, clamped to [0, 1], renormalised
RerankWeights(w_cf0, w_sem0, w_cf_delta, w_sem_delta) ==
    LET w_cf == RMax(RZero, RMin(ROne, RAdd(w_cf0, w_cf_delta)))
        w_sem == RMax(RZero, RMin(ROne, RAdd(w_sem0, w_sem_delta)))
    IN IF RLt(RZero, w_cf) /\ RLt(RZero, w_sem)
       THEN LET s == RMax(RAdd(w_cf, w_sem), Epsilon)
            IN <<RDiv(w_cf, s), RDiv(w_sem, s)>>
       ELSE IF RLt(RZero, w_cf) THEN <<ROne, RZero>>
       ELSE <<RZero, ROne>>

\* mutant of RerankPlan: a tool whose new weight is 0 is switched off
RerankPlanSetsFlags(st) ==
    LET adj == Get(Get(st, "critic", EmptyDict), "adjustments", EmptyDict)
        plan == Get(st, "plan", EmptyDict)
        x_cf == Get(adj, "weight_cf_delta", PyFloat(RZero))
        x_sem == Get(adj, "weight_semantic_delta", PyFloat(RZero))
    IN IF FloatRaises(x_cf) \/ FloatRaises(x_sem)
       THEN Raised
       ELSE LET w == RerankWeights(Get(plan, "weight_cf", <<2, 5>>),
                                   Get(plan, "weight_semantic", <<3, 5>>),
                                   Float(x_cf), Float(x_sem))
            IN Returned(Put(Put(Put(Put(Put(plan, "weight_cf", w[1]), "weight_semantic", w[2]),
                                    "use_cf", RLt(RZero, w[1])),
                                "use_semantic", RLt(RZero, w[2])),
                            "trace", Append(Get(plan, "trace", <<>>), "critic_rerank_applied")))

\* rerank_node up to the re-rank: the Plan with the critic's deltas applied
RerankPlan(st) ==
    LET adj == Get(Get(st, "critic", EmptyDict), "adjustments", EmptyDict)
        plan == Get(st, "plan", EmptyDict)
        x_cf == Get(adj, "weight_cf_delta", PyFloat(RZero))
        x_sem == Get(adj, "weight_semantic_delta", PyFloat(RZero))
    IN IF FloatRaises(x_cf) \/ FloatRaises(x_sem)
       THEN Raised
       ELSE LET w == RerankWeights(Get(plan, "weight_cf", <<2, 5>>),
                                   Get(plan, "weight_semantic", <<3, 5>>),
                                   Float(x_cf), Float(x_sem))
            IN Returned(Put(Put(Put(plan, "weight_cf", w[1]), "weight_semantic", w[2]),
                            "trace", Append(Get(plan, "trace", <<>>), "critic_rerank_applied")))

TopTitle(recs) == IF recs # <<>> THEN recs[1].title ELSE "None"

\* explain_node on state st, the reasoning service answering with `calls`
ExplainStep(st, calls) ==
    LET explanation == ExplainerRun(StateIntent(st), Get(st, "plan", EmptyDict),
                                    Get(st, "recs", <<>>),
                                    GenerateJson(calls, AgentMaxRetries))
    IN AppendTrace(Put(st, "explanation", explanation),
                   [node |-> "explain", one_liner |-> explanation.one_liner])

----------------------------------------------------------------------------
(* Unit run of explain_node over recommendation lists and every shape of
   answer of the reasoning service *)

ExplainBullets ==
    { PyList(<<PyText("a"), PyText("b"), PyText("c")>>),
      PyList(<<PyNumber, PyText("a")>>),
      PyList(<<PyText("a"), PyText("b"), PyNumber, PyText("c"), PyText("d")>>),
      PyText("no list"),
      PyNumber }

ExplainShapes ==
    { a @@ b : a \in OptKey("one_liner", {PyText("Grounded picks"), PyNumber}),
               b \in OptKey("bullets", ExplainBullets) }

ExplainInit ==
    /\ pc = "call"
    /\ cfg = DefaultCfg
    /\ state \in { [ context |-> [query |-> QEmpty],
                      intent_obj |-> [intent |-> "explore"],
                      plan |-> [use_cf |-> TRUE, use_semantic |-> FALSE,
                                weight_cf |-> ROne, weight_semantic |-> RZero],
                      recs |-> [i \in DOMAIN s |-> PlainRec(s[i])] ] : s \in ItemLists }
    /\ args \in [calls : ServiceRuns(ExplainShapes)]
    /\ ret = NoRet

ExplainReturns ==
    /\ pc = "call"
    /\ pc' = "returned"
    /\ state' = ExplainStep(state, args.calls)
    /\ UNCHANGED <<cfg, args, ret>>

SpecExplain == ExplainInit /\ [][ExplainReturns]_vars

\* the answer holds neither a string one_liner nor a list of bullets
WrongShape ==
    /\ ~("one_liner" \in DOMAIN Advice /\ Advice.one_liner.isstr)
    /\ ~("bullets" \in DOMAIN Advice /\ Advice.bullets.islist)

\* C20: Explain never blocks or alters the final output: when the reasoning
\* service fails or answers with data of the wrong shape the explanation is an
\* empty one_liner with exactly three empty bullets, the stage completes with
\* three bullets in every case, and the recommendations of the returned state
\* are those of the state Explain received.
C20_ExplainDegrades ==
    /\ [][Get(state', "recs", <<>>) = Get(state, "recs", <<>>)]_vars
    /\ [](pc = "returned"
            => /\ Len(state.explanation.bullets) = 3
               /\ (ServiceFailed \/ WrongShape)
                     => /\ state.explanation.one_liner = ""
                        /\ state.explanation.bullets = <<"", "", "">>)

\* C20 witness: the service answered with a number for one_liner and a string
\* for bullets; the explanation is empty and the recommendations are in place.
C20_Witness ==
    /\ pc = "returned"
    /\ ~ServiceFailed
    /\ Advised("one_liner", PyNumber)
    /\ Advised("bullets", PyText("no list"))
    /\ state.explanation = [one_liner |-> "", bullets |-> <<"", "", "">>]
    /\ Len(state.recs) = MaxRecs

\* C20 second case: both calls of the service failed.
C20_ServiceFailedReached ==
    /\ pc = "returned"
    /\ ServiceFailed
    /\ state.explanation = [one_liner |-> "", bullets |-> <<"", "", "">>]

\* the list filter at work: non-string bullets dropped, the rest cut to three
C20_FilteredReached ==
    /\ pc = "returned"
    /\ state.explanation.bullets = <<"a", "b", "c">>
    /\ Advised("bullets", PyList(<<PyText("a"), PyText("b"), PyNumber, PyText("c"), PyText("d")>>))

----------------------------------------------------------------------------
(* Unit run of IntentAgent.run over request contexts and every run of the
   reasoning service *)

\* the intents an Intent Result may carry
AllowedIntents == {"search", "explore", "comfort", "quick_watch"}

IntentInit ==
    /\ pc = "call"
    /\ cfg = DefaultCfg
    /\ state = NoState
    /\ \E q \in {QEmpty, QBlank, QSciFi},
          n \in OptKey("novelty_tolerance", {<<1, 10>>, <<3, 10>>, NaN}),
          m \in OptKey("available_minutes", {<<30, 1>>, <<45, 1>>, <<46, 1>>}),
          calls \in ServiceRuns(
              { i @@ c : i \in OptKey("intent", AllowedIntents \cup {" Search", "banana"}),
                         c \in OptKey("confidence",
                                      {PyFloat(<<-1, 2>>), PyFloat(<<3, 10>>),
                                       PyFloat(<<3, 2>>), PyFloat(NaN), PyStr}) }) :
         args = [context |-> [query |-> q] @@ n @@ m, calls |-> calls]
    /\ ret = NoRet

IntentReturns ==
    /\ pc = "call"
    /\ pc' = "returned"
    /\ ret' = IntentRun(args.context, GenerateJson(args.calls, AgentMaxRetries))
    /\ UNCHANGED <<cfg, state, args>>

SpecIntent == IntentInit /\ [][IntentReturns]_vars

----------------------------------------------------------------------------
(* Claims about the Intent stage (SpecIntent) *)

\* the request's novelty tolerance is a number below 0.3
LowNovelty ==
    "novelty_tolerance" \in DOMAIN args.context
        /\ RLt(args.context.novelty_tolerance, <<3, 10>>)

\* the request's time budget is a number of at most 45 minutes
ShortBudget ==
    "available_minutes" \in DOMAIN args.context
        /\ RLe(args.context.available_minutes, <<45, 1>>)

\* the intent the reasoning service proposed ("explore" when it proposed none)
AdvisedIntent == Get(Advice, "intent", "explore")

\* C21: the intent of the Intent Result follows the deterministic overrides,
\* whatever the reasoning service proposed: a query that is non-empty after
\* trimming gives "search"; with an empty query a novelty tolerance below 0.3
\* gives "comfort"; with an empty query and no low novelty tolerance a time
\* budget of at most 45 minutes gives "quick_watch"; otherwise the advisory
\* intent is kept.
C21_IntentOverrides ==
    pc = "returned" =>
        /\ Strip(args.context.query) # <<>> => ret.intent = "search"
        /\ Strip(args.context.query) = <<>> =>
              /\ LowNovelty => ret.intent = "comfort"
              /\ (~LowNovelty /\ ShortBudget) => ret.intent = "quick_watch"
              /\ (~LowNovelty /\ ~ShortBudget) => ret.intent = AdvisedIntent

\* C21 witness: an empty query with a low novelty tolerance and a short time
\* budget, the service proposing "search": the Intent Result says "comfort".
C21_Witness ==
    /\ pc = "returned"
    /\ args.context.query = QEmpty
    /\ LowNovelty
    /\ ShortBudget
    /\ Advised("intent", "search")
    /\ ret.intent = "comfort"

\* C21 second and third cases: the time budget alone, and no override at all.
C21_QuickWatchReached ==
    /\ pc = "returned"
    /\ Strip(args.context.query) = <<>>
    /\ ~LowNovelty
    /\ ShortBudget
    /\ args.context.available_minutes = <<45, 1>>
    /\ Advised("intent", "explore")
    /\ ret.intent = "quick_watch"

C21_AdvisoryKeptReached ==
    /\ pc = "returned"
    /\ args.context = [query |-> QEmpty, novelty_tolerance |-> <<3, 10>>,
                       available_minutes |-> <<46, 1>>]
    /\ Advised("intent", "comfort")
    /\ ret.intent = "comfort"

\* C22: every Intent Result has intent in {search, explore, comfort,
\* quick_watch} and confidence in [0, 1], for every answer of the reasoning
\* service, an intent outside the allowed set and a failed call included.
C22_IntentResultInRange ==
    pc = "returned" =>
        /\ ret.intent \in AllowedIntents
        /\ RLe(RZero, ret.confidence)
        /\ RLe(ret.confidence, ROne)

\* the confidence half of C22 on its own
C22_ConfidenceInRange ==
    pc = "returned" => RLe(RZero, ret.confidence) /\ RLe(ret.confidence, ROne)

----------------------------------------------------------------------------
(* The requests, tool answers and advisory answers of the pipeline runs *)

KnownUser == 1
UnknownUser == 99

PipelineContexts ==
    { [query |-> QEmpty],
      [query |-> QSciFi],
      [query |-> QKids],
      [query |-> QEmpty, novelty_tolerance |-> <<1, 10>>, available_minutes |-> <<30, 1>>],
      [query |-> QBlank, available_minutes |-> <<30, 1>>] }

PipelineConfigs ==
    { [DefaultCfg EXCEPT !.enforce_hybrid_for_search = e, !.final_k = k] :
        e \in BOOLEAN, k \in {FinalK, SmallFinalK} }

\* the runs of the reasoning service met in the pipeline: an answer at once,
\* or no answer after the repair
PipelineRuns(D) ==
    {<<CallDict(d), CallUnparsable>> : d \in D} \cup {<<CallUnparsable, CallRaises>>}

IntentAdvice ==
    { [intent |-> " Search", confidence |-> PyFloat(<<3, 10>>)],
      [intent |-> "explore"] }

PipelinePlanAdvice ==
    { [use_cf |-> FALSE, use_semantic |-> TRUE, weight_cf |-> PyFloat(RZero)],
      [use_cf |-> TRUE, use_semantic |-> TRUE,
       weight_cf |-> PyFloat(RZero), weight_semantic |-> PyFloat(RZero)],
      [use_cf |-> TRUE, use_semantic |-> FALSE],
      [use_cf |-> FALSE, use_semantic |-> FALSE],
      [use_cf |-> TRUE, use_semantic |-> TRUE,
       weight_cf |-> PyFloat(<<-1, 2>>), weight_semantic |-> PyFloat(<<1, 10>>)],
      [weight_cf |-> PyFloat(<<3, 2>>), trace |-> <<"advisory_reason">>],
      [weight_cf |-> PyStr] }

PipelineCritiqueAdvice ==
    { [needs_rerank |-> FALSE],
      [needs_rerank |-> TRUE,
       adjustments |-> AdjDict([weight_semantic_delta |-> PyFloat(<<3, 10>>)])],
      [adjustments |-> AdjDict([weight_cf_delta |-> PyFloat(<<-1, 2>>),
                                exclude_genres |-> <<>>])],
      [needs_rerank |-> TRUE, adjustments |-> AdjDict([weight_cf_delta |-> PyStr])] }

ExplainAdvice ==
    { [one_liner |-> PyText("Grounded picks"),
       bullets |-> PyList(<<PyText("Blade Runner fits")>>)],
      [one_liner |-> PyNumber, bullets |-> PyText("no list")] }

\* SimpleCFRecommender.recommend: no rows for an unknown user
CfAnswers(user_id) ==
    IF user_id = KnownUser
    THEN { ToolRows(<<Row(1, <<4, 5>>), Row(2, <<2, 5>>)>>),
           ToolRows(<<Row(3, <<1, 2>>)>>),
           ToolRaises }
    ELSE { ToolRows(<<>>) }

\* SemanticSearchTool.search
SemAnswers ==
    { ToolRows(<<Row(2, <<9, 10>>), Row(3, <<3, 10>>)>>),
      ToolRows(<<Row(NumItems, <<1, 2>>)>>),
      ToolRaises }

----------------------------------------------------------------------------
(* The pipeline *)

\* the nodes of the graph as functions: the state dict a node returns for state
\* st under configuration c, given what its callees answer (the run of the
\* reasoning service, or the answers of the two tools), or the exception that
\* leaves it
\* intent_node
IntentStep(st, calls) ==
    LET intent_obj == IntentRun(st.context, GenerateJson(calls, AgentMaxRetries))
    IN Returned(AppendTrace(Put(st, "intent_obj", intent_obj),
                            [ node |-> "intent",
                              intent |-> intent_obj.intent,
                              confidence |-> intent_obj.confidence,
                              trace |-> intent_obj.trace ]))

\* plan_node
PlanStep(c, st, calls) ==
    LET run == PlannerRun(c, StateIntent(st), st.context,
                          GenerateJson(calls, AgentMaxRetries))
        plan == run.value
    IN IF run.raised
       THEN Raised
       ELSE Returned(AppendTrace(Put(st, "plan", plan),
                                 [ node |-> "plan",
                                   use_cf |-> plan.use_cf,
                                   use_semantic |-> plan.use_semantic,
                                   weights |-> [cf |-> plan.weight_cf,
                                                semantic |-> plan.weight_semantic] ]))

\* retrieve_node
RetrieveStep(st, cf_answer, sem_answer) ==
    LET plan == Get(st, "plan", EmptyDict)
        use_cf == Get(plan, "use_cf", TRUE)
        use_sem == Get(plan, "use_semantic", FALSE)
        query == Strip(st.context.query)
        call_sem == CallsSemantic(use_sem, query)
        with_cf == IF use_cf THEN Put(st, "cf", cf_answer.rows) ELSE st
        state2 == IF call_sem THEN Put(with_cf, "sem", sem_answer.rows)
                  ELSE IF use_sem THEN Put(with_cf, "sem", <<>>)
                  ELSE with_cf
    IN IF (use_cf /\ cf_answer.raised) \/ (call_sem /\ sem_answer.raised)
       THEN Raised
       ELSE Returned(AppendTrace(state2,
                                 [ node |-> "retrieve",
                                   use_cf |-> use_cf,
                                   use_semantic |-> use_sem,
                                   cf_rows |-> Len(Get(state2, "cf", <<>>)),
                                   sem_rows |-> Len(Get(state2, "sem", <<>>)) ]))

\* rank_node
RankStep(c, st) ==
    LET recs == RankerCall(c, st)
    IN Returned(AppendTrace(Put(st, "recs", recs),
                            [ node |-> "rank", top1 |-> TopTitle(recs),
                              recs_count |-> Len(recs) ]))

\* critic_node
CriticStep(c, st, calls) ==
    LET critic == CriticRun(c, StateIntent(st), st.context, Get(st, "recs", <<>>),
                            GenerateJson(calls, AgentMaxRetries))
    IN Returned(AppendTrace(Put(st, "critic", critic),
                            [ node |-> "critic",
                              needs_rerank |-> critic.needs_rerank,
                              adjustments |-> critic.adjustments ]))

\* rerank_node
RerankStep(c, st) ==
    LET run == RerankPlan(st)
        plan == run.value
        state2 == Put(st, "plan", plan)
        recs == RankerCall(c, state2)
    IN IF run.raised
       THEN Raised
       ELSE Returned(AppendTrace(Put(state2, "recs", recs),
                                 [ node |-> "rerank",
                                   applied_adjustments |-> st.critic.adjustments,
                                   new_weights |-> [cf |-> plan.weight_cf,
                                                    semantic |-> plan.weight_semantic],
                                   top1 |-> TopTitle(recs) ]))

\* the node named node, its callees' answers in the record inp
NodeStep(node, c, st, inp) ==
    CASE node = "intent" -> IntentStep(st, inp.calls)
      [] node = "plan" -> PlanStep(c, st, inp.calls)
      [] node = "retrieve" -> RetrieveStep(st, inp.cf_answer, inp.sem_answer)
      [] node = "rank" -> RankStep(c, st)
      [] node = "critic" -> CriticStep(c, st, inp.calls)
      [] node = "rerank" -> RerankStep(c, st)
      [] node = "explain" -> Returned(ExplainStep(st, inp.calls))

Init ==
    /\ pc = "intent"
    /\ cfg \in PipelineConfigs
    /\ state \in [context : PipelineContexts, user_id : {KnownUser, UnknownUser}]
    /\ args = NoArgs
    /\ ret = NoRet

IntentNode ==
    /\ pc = "intent"
    /\ \E calls \in PipelineRuns(IntentAdvice) :
         Moves("intent", IntentStep(state, calls).value)

PlanNode ==
    /\ pc = "plan"
    /\ \E calls \in PipelineRuns(PipelinePlanAdvice) :
         LET out == PlanStep(cfg, state, calls)
         IN IF out.raised THEN Escapes("plan", "ValueError") ELSE Moves("plan", out.value)

RetrieveNode ==
    /\ pc = "retrieve"
    /\ \E cf_answer \in CfAnswers(state.user_id), sem_answer \in SemAnswers :
         LET out == RetrieveStep(state, cf_answer, sem_answer)
         IN IF out.raised THEN Escapes("retrieve", "ToolError")
            ELSE Moves("retrieve", out.value)

RankNode ==
    /\ pc = "rank"
    /\ Moves("rank", RankStep(cfg, state).value)

CriticNode ==
    /\ pc = "critic"
    /\ \E calls \in PipelineRuns(PipelineCritiqueAdvice) :
         Moves("critic", CriticStep(cfg, state, calls).value)

\* mutant of RerankNode: the re-rank takes novelty_lambda from the adjustments
RerankNodeAppliesKnobs ==
    /\ pc = "rerank"
    /\ LET run == RerankPlan(state)
           plan == run.value
           state2 == Put(state, "plan", plan)
           adj == state.critic.adjustments
           recs == RankerCall([cfg EXCEPT !.novelty_lambda =
                                   Get(adj, "novelty_lambda", cfg.novelty_lambda)], state2)
       IN IF run.raised
          THEN Escapes("rerank", "ValueError")
          ELSE Moves("rerank",
                     AppendTrace(Put(state2, "recs", recs),
                                 [ node |-> "rerank",
                                   applied_adjustments |-> state.critic.adjustments,
                                   new_weights |-> [cf |-> plan.weight_cf,
                                                    semantic |-> plan.weight_semantic],
                                   top1 |-> TopTitle(recs) ]))

RerankNode ==
    /\ pc = "rerank"
    /\ LET out == RerankStep(cfg, state)
       IN IF out.raised THEN Escapes("rerank", "ValueError") ELSE Moves("rerank", out.value)

ExplainNode ==
    /\ pc = "explain"
    /\ \E calls \in PipelineRuns(ExplainAdvice) :
         Moves("explain", ExplainStep(state, calls))

Next ==
    \/ IntentNode
    \/ PlanNode
    \/ RetrieveNode
    \/ RankNode
    \/ CriticNode
    \/ RerankNode
    \/ ExplainNode

Spec == Init /\ [][Next]_vars

----------------------------------------------------------------------------
(* Claims about the pipeline (Spec) *)

TraceLog == Get(state, "trace_log", <<>>)

\* the nodes that have run, in order, as the trace log names them
NodesRun == [i \in DOMAIN TraceLog |-> TraceLog[i].node]

Count(node) == Cardinality({i \in DOMAIN TraceLog : TraceLog[i].node = node})

LastNode == IF TraceLog = <<>> THEN "none" ELSE TraceLog[Len(TraceLog)].node

IsPrefix(s, t) == Len(s) <= Len(t) /\ SubSeq(t, 1, Len(s)) = s

WithoutRerank == <<"intent", "plan", "retrieve", "rank", "critic", "explain">>
WithRerank == <<"intent", "plan", "retrieve", "rank", "critic", "rerank", "explain">>

\* C1: in every run Rerank executes at most once and Critique never runs
\* after Rerank; the final trace log holds at most one "rerank" entry and
\* exactly one "critic" entry, whatever the advisory critique returned.
C1_RerankAtMostOnce ==
    /\ Count("rerank") <= 1
    /\ Count("critic") <= 1
    /\ pc \in {"critic", "rerank"} => Count("rerank") = 0
    /\ pc = "done" => Count("critic") = 1

\* C1 witness: a finished run that went through Rerank on the word of the
\* advisory critique alone.
C1_Witness ==
    /\ pc = "done"
    /\ Count("rerank") = 1
    /\ Count("critic") = 1
    /\ "weight_semantic_delta" \in DOMAIN state.critic.adjustments

\* C2: every run visits Intent, Plan, Retrieve, Rank, Critique, optionally
\* Rerank, then Explain, in that order, skips no stage but Rerank, and always
\* ends in Done provided every external call returns (no retrieval tool fails).
C2_OrderAndTermination ==
    /\ IsPrefix(NodesRun, WithoutRerank) \/ IsPrefix(NodesRun, WithRerank)
    /\ pc = "done" => NodesRun \in {WithoutRerank, WithRerank}
    /\ pc = "raised" => ret.exc = "ToolError"

\* C3: Rerank is entered if and only if the verdict the Critique stage stored
\* has needs_rerank == true; otherwise Explain follows Critique directly.
C3_BranchIsNeedsRerank ==
    /\ (LastNode = "critic" /\ pc # "raised") =>
          /\ pc = "rerank" <=> state.critic.needs_rerank
          /\ pc = "explain" <=> ~state.critic.needs_rerank
    /\ pc = "rerank" => LastNode = "critic"
    /\ (Count("rerank") = 1 \/ (pc = "raised" /\ ret.node = "rerank"))
          => state.critic.needs_rerank
    /\ (pc = "explain" /\ state.critic.needs_rerank) => LastNode = "rerank"

\* C3 witness: Critique has just stored a verdict with needs_rerank false and
\* the pipeline stands at Explain, Rerank skipped.
C3_Witness ==
    /\ LastNode = "critic"
    /\ pc = "explain"
    /\ state.critic.needs_rerank = FALSE

\* C4: each stage returns the trace log it received followed by exactly one
\* new entry naming that stage; no entry is removed, changed or reordered, and
\* the final log has 6 entries without Rerank and 7 with it.
C4_TraceAppendOnly ==
    /\ [][ pc' # "raised" =>
             /\ Get(state', "trace_log", <<>>) # TraceLog
             /\ Len(Get(state', "trace_log", <<>>)) = Len(TraceLog) + 1
             /\ SubSeq(Get(state', "trace_log", <<>>), 1, Len(TraceLog)) = TraceLog
             /\ Get(state', "trace_log", <<>>)[Len(TraceLog) + 1].node = pc ]_vars
    /\ [](pc = "done" => Len(TraceLog) = (IF Count("rerank") = 1 THEN 7 ELSE 6))

\* C4 witness: a finished run through Rerank, with its seven entries.
C4_Witness ==
    /\ pc = "done"
    /\ Len(TraceLog) = 7
    /\ NodesRun = WithRerank

\* C8: in every pipeline state that holds a Plan, after the Plan stage and
\* after Rerank replaced it, at least one of use_cf / use_semantic is true,
\* and if exactly one is true the inactive tool's weight is 0 and the active
\* tool's weight is 1.
C8_PlanInvariant ==
    "plan" \in DOMAIN state =>
        LET plan == state.plan IN
        /\ plan.use_cf \/ plan.use_semantic
        /\ (plan.use_cf /\ ~plan.use_semantic)
               => (plan.weight_cf = ROne /\ plan.weight_semantic = RZero)
        /\ (plan.use_semantic /\ ~plan.use_cf)
               => (plan.weight_cf = RZero /\ plan.weight_semantic = ROne)

\* C13: a retrieval tool call that raises during Retrieve is absorbed by the
\* stage (that source counts as empty): no fault leaves the Retrieve stage and
\* the pipeline goes on through Rank, Critique and Explain to Done.
C13_ToolFailureAbsorbed ==
    pc = "raised" => ret.node # "retrieve"

\* the reference candidates of the Fusion Ranker
RefCf == <<Row(1, <<4, 5>>), Row(2, <<2, 5>>)>>
RefSem == <<Row(2, <<9, 10>>), Row(3, <<3, 10>>)>>

\* Rank has just run on the reference candidates with weights (0.4, 0.6),
\* advantage_alpha 0.6, novelty_lambda 0.2 and a cap that holds the pool
RefRanked ==
    /\ LastNode = "rank"
    /\ Get(state, "cf", <<>>) = RefCf
    /\ Get(state, "sem", <<>>) = RefSem
    /\ state.plan.weight_cf = <<2, 5>>
    /\ state.plan.weight_semantic = <<3, 5>>
    /\ cfg.advantage_alpha = <<3, 5>>
    /\ cfg.novelty_lambda = <<1, 5>>
    /\ cfg.final_k >= 3

\* C16: for CF candidates [(1, 0.8), (2, 0.4)], semantic candidates
\* [(2, 0.9), (3, 0.3)], weights (0.4, 0.6), advantage_alpha 0.6,
\* novelty_lambda 0.2 and popularities {1: 0.9, 2: 0.3, 3: 0.1} the ranker
\* returns items 2, 3, 1 with scores 0.76, 0.32 and -0.12, each score being
\* (w_cf*cf_norm + w_sem*sem_norm) - alpha*baseline + lambda*(1 - baseline)
\* over max-normalised signals, a missing signal counted as 0.
C16_ReferenceRanking ==
    RefRanked
        => /\ [i \in DOMAIN state.recs |-> state.recs[i].movieId] = <<2, 3, 1>>
           /\ [i \in DOMAIN state.recs |-> state.recs[i].score]
                  = << <<19, 25>>, <<8, 25>>, <<-3, 25>> >>
           /\ \A i \in DOMAIN state.recs :
                  LET sig == state.recs[i].signals
                  IN state.recs[i].score =
                         RAdd(RSub(RAdd(RMul(<<2, 5>>, sig.cf), RMul(<<3, 5>>, sig.semantic)),
                                   RMul(<<3, 5>>, sig.baseline_popularity)),
                              RMul(<<1, 5>>, RSub(ROne, sig.baseline_popularity)))
           /\ state.recs[3].signals.semantic = RZero
           /\ state.recs[2].signals.cf = RZero

\* C16 witness: Rank has run on the reference candidates and item 2 leads
\* with 0.76.
C16_Witness ==
    /\ RefRanked
    /\ Len(state.recs) = 3
    /\ state.recs[1].movieId = 2
    /\ state.recs[1].score = <<19, 25>>

\* Retrieve has run and left both candidate sources empty
EmptyPool ==
    /\ Count("retrieve") = 1
    /\ Get(state, "cf", <<>>) = <<>>
    /\ Get(state, "sem", <<>>) = <<>>

\* C19: if both candidate sources are empty the ranker returns an empty
\* sequence, not an error, and the pipeline still passes through Critique and
\* reaches Explain and Done without error, ending with an empty
\* recommendation list.
C19_EmptyPoolCompletes ==
    EmptyPool
        => /\ pc # "raised"
           /\ Count("rank") = 1 => state.recs = <<>>

\* C19, the ranker's part alone: on an empty pool Rank and Rerank store an
\* empty recommendation list.
C19_EmptyPoolRanksEmpty ==
    (EmptyPool /\ Count("rank") = 1) => state.recs = <<>>

\* an empty pool carried through to Done
C19_EmptyPoolDoneReached ==
    /\ EmptyPool
    /\ pc = "done"
    /\ state.recs = <<>>
    /\ Count("rerank") = 1

\* Critique has run on the empty recommendation list of an empty pool
EmptyListCritiqued == EmptyPool /\ Count("critic") = 1

\* C33: with an empty recommendation list the genre-diversity check always
\* fires, so the Critic Verdict has needs_rerank true with a diversity_boost
\* adjustment and the pipeline enters Rerank, which re-ranks the empty pool to
\* an empty list before Explain: once Critique has run the run stands at Rerank,
\* or Rerank has stored the empty list and the run stands at Explain or Done.
C33_EmptyListIsReranked ==
    EmptyListCritiqued
        => /\ state.critic.needs_rerank = TRUE
           /\ "diversity_boost" \in DOMAIN state.critic.adjustments
           /\ \/ pc = "rerank" /\ Count("rerank") = 0
              \/ pc \in {"explain", "done"} /\ Count("rerank") = 1 /\ state.recs = <<>>

\* C33, the verdict and the routing alone: Critique on an empty list asks for
\* a rerank with a diversity_boost, Rerank is entered, Explain is never entered
\* before Rerank has stored the empty list, and the only other way out of
\* Rerank is an exception raised inside it.
C33_EmptyListAsksForRerank ==
    EmptyListCritiqued
        => /\ state.critic.needs_rerank = TRUE
           /\ "diversity_boost" \in DOMAIN state.critic.adjustments
           /\ \/ pc = "rerank" /\ Count("rerank") = 0
              \/ pc \in {"explain", "done"} /\ Count("rerank") = 1 /\ state.recs = <<>>
              \/ pc = "raised" /\ ret.node = "rerank" /\ Count("rerank") = 0

\* the run of an empty list stands at Rerank; Rerank raised on it
C33_RerankEnteredReached ==
    /\ EmptyListCritiqued
    /\ pc = "rerank"
    /\ state.recs = <<>>

C33_RerankRaisedReached ==
    /\ EmptyListCritiqued
    /\ pc = "raised"
    /\ ret.node = "rerank"

\* C23: Retrieve calls a tool only if the Plan marks it active, and never calls
\* the semantic tool with a query that is empty after trimming. Every answer of
\* a called tool for a known user is a non-empty list of rows or an exception,
\* so: an inactive tool leaves no rows in the state (the ranker reads an empty
\* candidate set), an active semantic tool with an empty query leaves the empty
\* list, and a stage that has no tool to call cannot fail.
C23_RetrieveCallsActiveTools ==
    [][pc = "retrieve" =>
         LET use_cf == state.plan.use_cf
             use_sem == state.plan.use_semantic
             empty_query == Strip(state.context.query) = <<>>
         IN /\ ~use_cf => Get(state', "cf", <<>>) = <<>>
            /\ ~use_sem => Get(state', "sem", <<>>) = <<>>
            /\ (use_sem /\ empty_query /\ pc' # "raised") => state'.sem = <<>>
            /\ (~use_cf /\ (~use_sem \/ empty_query)) => pc' = "rank"]_vars

\* C23 witness: Retrieve has run on a semantic-only Plan for a whitespace-only
\* query: the semantic candidate set is the empty list and there is no
\* behavioural candidate set.
C23_Witness ==
    /\ pc = "rank"
    /\ state.context.query = QBlank
    /\ state.plan.use_semantic
    /\ ~state.plan.use_cf
    /\ state.sem = <<>>
    /\ "cf" \notin DOMAIN state

\* C23 second case: the semantic tool inactive, nothing of it in the state
C23_InactiveSemanticReached ==
    /\ pc = "rank"
    /\ ~state.plan.use_semantic
    /\ "sem" \notin DOMAIN state
    /\ state.cf # <<>>

----------------------------------------------------------------------------
(* Unit run of rerank_node on the states critic_node hands it: a Plan, the
   candidate sets of its active tools, the ranking of rank_node and a verdict
   with needs_rerank == true *)

\* the Plans of the unit run, in the shape PlannerAgent.run returns them
RerankPlans ==
    { [use_cf |-> u[1], use_semantic |-> u[2], weight_cf |-> u[3], weight_semantic |-> u[4],
       trace |-> <<"openai_planner_v2">>] :
        u \in { <<TRUE, TRUE, <<2, 5>>, <<3, 5>>>>,
                <<TRUE, TRUE, <<1, 5>>, <<4, 5>>>>,
                <<TRUE, TRUE, <<1, 2>>, <<1, 2>>>>,
                <<TRUE, FALSE, ROne, RZero>>,
                <<FALSE, TRUE, RZero, ROne>>,
                <<TRUE, TRUE, NaN, NaN>> } }

\* the critiques of the unit run: no adjustments, weight deltas of either sign,
\* deltas that leave both weights just above zero, nan, and malformed ones
RerankCritiques ==
    { [needs_rerank |-> TRUE],
      [adjustments |-> AdjDict([weight_cf_delta |-> PyFloat(<<-1, 2>>)])],
      [adjustments |-> AdjDict([weight_semantic_delta |-> PyFloat(<<3, 10>>)])],
      [adjustments |-> AdjDict([weight_cf_delta |-> PyFloat(<<-3999999, 10000000>>),
                                weight_semantic_delta |-> PyFloat(<<-5999999, 10000000>>)])],
      [adjustments |-> AdjDict([weight_cf_delta |-> PyFloat(NaN)])],
      [adjustments |-> AdjDict([weight_semantic_delta |-> PyStr])],
      [adjustments |-> AdjNotDict] }

RerankInit ==
    /\ pc = "rerank"
    /\ cfg \in {[DefaultCfg EXCEPT !.final_k = k] : k \in {FinalK, SmallFinalK}}
    /\ \E plan \in RerankPlans, q \in {QEmpty, QSciFi},
          cf_answer \in CfAnswers(KnownUser) \cup CfAnswers(UnknownUser),
          sem_answer \in SemAnswers,
          calls \in PipelineRuns(RerankCritiques) :
         LET context == [query |-> q]
             with_cf == IF plan.use_cf THEN "cf" :> cf_answer.rows ELSE EmptyDict
             with_sem == IF CallsSemantic(plan.use_semantic, q) THEN "sem" :> sem_answer.rows
                         ELSE IF plan.use_semantic THEN "sem" :> <<>>
                         ELSE EmptyDict
             st == [context |-> context, user_id |-> KnownUser,
                    intent_obj |-> [intent |-> "explore"], plan |-> plan]
                       @@ with_cf @@ with_sem
             recs == RankerCall(cfg, st)
             critic == CriticRun(cfg, "explore", context, recs,
                                 GenerateJson(calls, AgentMaxRetries))
         IN /\ ~cf_answer.raised
            /\ ~sem_answer.raised
            /\ critic.needs_rerank
            /\ state = Put(Put(st, "recs", recs), "critic", critic)
    /\ args = NoArgs
    /\ ret = NoRet

SpecRerank == RerankInit /\ [][RerankNode]_vars

----------------------------------------------------------------------------
(* Claims about the Rerank stage (SpecRerank) *)

\* the sum of the two weights of a Plan
WeightSum(plan) == RAdd(plan.weight_cf, plan.weight_semantic)

\* C27: every Rerank step that returns leaves a Plan whose weight_cf and
\* weight_semantic each lie in [0, 1] and sum to 1, for every adjustments
\* mapping and every prior Plan, and its recommendations are those of one
\* invocation of the ranker on the state with that Plan, in place of the
\* previous sequence.
C27_RerankWeightsNormalised ==
    [][(pc = "rerank" /\ pc' = "explain") =>
         /\ RLe(RZero, state'.plan.weight_cf) /\ RLe(state'.plan.weight_cf, ROne)
         /\ RLe(RZero, state'.plan.weight_semantic) /\ RLe(state'.plan.weight_semantic, ROne)
         /\ Near(WeightSum(state'.plan), ROne)
         /\ state'.recs = RankerCall(cfg, Put(state, "plan", state'.plan))]_vars

\* C27 apart from the sum: each weight in [0, 1] and the recommendations
\* replaced by one fresh ranking under the new Plan
C27_RangeAndReplacement ==
    [][(pc = "rerank" /\ pc' = "explain") =>
         /\ RLe(RZero, state'.plan.weight_cf) /\ RLe(state'.plan.weight_cf, ROne)
         /\ RLe(RZero, state'.plan.weight_semantic) /\ RLe(state'.plan.weight_semantic, ROne)
         /\ state'.recs = RankerCall(cfg, Put(state, "plan", state'.plan))]_vars

\* the sum is 1 whenever the clamped weights are not both positive with a
\* sum below 1e-6
C27_SumOutsideEpsilonWindow ==
    [][(pc = "rerank" /\ pc' = "explain") =>
         LET adj == state.critic.adjustments
             w_cf == RAdd(state.plan.weight_cf, Float(Get(adj, "weight_cf_delta", PyFloat(RZero))))
             w_sem == RAdd(state.plan.weight_semantic,
                           Float(Get(adj, "weight_semantic_delta", PyFloat(RZero))))
         IN ~(RLt(RZero, w_cf) /\ RLt(RZero, w_sem) /\ RLt(RAdd(w_cf, w_sem), Epsilon))
               => Near(WeightSum(state'.plan), ROne)]_vars

\* the Plan invariant: weights in [0, 1]; both tools active: the weights sum to
\* 1; one tool active: its weight is 1 and the other 0; never no tool
PlanInvariant(plan) ==
    /\ plan.use_cf \/ plan.use_semantic
    /\ RLe(RZero, plan.weight_cf) /\ RLe(plan.weight_cf, ROne)
    /\ RLe(RZero, plan.weight_semantic) /\ RLe(plan.weight_semantic, ROne)
    /\ WeightSum(plan) = ROne
    /\ (plan.use_cf /\ ~plan.use_semantic) => plan.weight_cf = ROne
    /\ (plan.use_semantic /\ ~plan.use_cf) => plan.weight_semantic = ROne

\* the adjustments hold neither weight delta
NoWeightDeltas(adj) ==
    "weight_cf_delta" \notin DOMAIN adj /\ "weight_semantic_delta" \notin DOMAIN adj

\* C28: when the verdict's adjustments hold no weight-delta key and the Plan
\* satisfies the Plan invariant, the Rerank step leaves weight_cf and
\* weight_semantic as they were and, the ranker reading novelty_lambda from the
\* unmodified configuration, the re-ranked sequence is the sequence the Rank
\* stage produced.
C28_NoDeltaRerankIsIdentity ==
    [][(pc = "rerank" /\ NoWeightDeltas(state.critic.adjustments) /\ PlanInvariant(state.plan))
          => /\ pc' = "explain"
             /\ state'.plan.weight_cf = state.plan.weight_cf
             /\ state'.plan.weight_semantic = state.plan.weight_semantic
             /\ state'.recs = state.recs
             /\ cfg' = cfg]_vars

\* C28 witness: Rerank has run on a verdict of the deterministic checks
\* (diversity_boost among its adjustments, no weight delta) with the hybrid
\* Plan (0.4, 0.6) and candidates of both tools: the weights are those and the
\* recommendations are a ranking under them.
C28_Witness ==
    /\ pc = "explain"
    /\ LastNode = "rerank"
    /\ "diversity_boost" \in DOMAIN state.critic.adjustments
    /\ NoWeightDeltas(state.critic.adjustments)
    /\ state.plan.weight_cf = <<2, 5>>
    /\ state.plan.weight_semantic = <<3, 5>>
    /\ state.cf # <<>> /\ state.sem # <<>>
    /\ state.recs # <<>>
    /\ state.recs = RankerCall(cfg, state)

\* C28 second case: the popularity check asked for a higher novelty_lambda and
\* the configuration still holds its own
C28_NoveltyKnobIgnoredReached ==
    /\ pc = "explain"
    /\ LastNode = "rerank"
    /\ "novelty_lambda" \in DOMAIN state.critic.adjustments
    /\ state.critic.adjustments.novelty_lambda # cfg.novelty_lambda
    /\ NoWeightDeltas(state.critic.adjustments)
    /\ state.recs # <<>>
    /\ state.recs = RankerCall(cfg, state)

\* the verdict of the deterministic checks alone never holds a weight delta
\* (unit run of CriticAgent.run)
C28_HardVerdictHasNoDeltas ==
    pc = "returned" => (NoWeightDeltas(Hard.adjustments)
                        /\ (ServiceFailed => ret.adjustments = Hard.adjustments))

----------------------------------------------------------------------------
(* Further claims about the pipeline (Spec) *)

\* the request is a search-intent request under hybrid enforcement
HybridSearchRequest ==
    "intent_obj" \in DOMAIN state /\ HybridSearch(cfg, NormIntent(StateIntent(state)))

\* C29: in a search-intent request under hybrid enforcement the Plan of the
\* final Pipeline State, after Rerank applied the verdict's weight deltas
\* (deltas of the advisory critique included), has use_cf == true and
\* weight_cf >= min_cf_weight.
C29_RerankKeepsCfShare ==
    (pc = "done" /\ Count("rerank") = 1 /\ HybridSearchRequest)
        => (state.plan.use_cf = TRUE /\ RLe(cfg.min_cf_weight, state.plan.weight_cf))

\* the flag half of C29: Rerank never touches use_cf
C29_RerankKeepsCfFlag ==
    (pc = "done" /\ Count("rerank") = 1 /\ HybridSearchRequest) => state.plan.use_cf = TRUE

\* the share is there before Rerank in every such run of the pipeline: the
\* breach in the final state is the work of Rerank
C29_ShareHeldBeforeRerank ==
    (pc = "rerank" /\ HybridSearchRequest) => RLe(cfg.min_cf_weight, state.plan.weight_cf)

\* key k of the state dict is left as it is by the step: absent before and
\* after, or present with the same value
Kept(k) ==
    /\ k \in DOMAIN state <=> k \in DOMAIN state'
    /\ k \in DOMAIN state => state'[k] = state[k]

\* C30: the frame of each stage. The Request Context and the user id are the
\* same in every Pipeline State of a request; the raw candidate sets are
\* unchanged by every stage after Retrieve; the Critic Verdict and the Intent
\* Result are unchanged by Rerank and Explain; Rerank changes only the Plan's
\* weights and trace, the recommendations and the Trace Log, never the
\* configuration or the Plan's use_cf / use_semantic flags.
C30_StageFrames ==
    [][ /\ Kept("context") /\ Kept("user_id")
        /\ cfg' = cfg
        /\ pc \in {"rank", "critic", "rerank", "explain"} => (Kept("cf") /\ Kept("sem"))
        /\ pc \in {"rerank", "explain"} => (Kept("critic") /\ Kept("intent_obj"))
        /\ pc = "rerank" =>
              /\ \A k \in (DOMAIN state \cup DOMAIN state') \ {"plan", "recs", "trace_log"} : Kept(k)
              /\ DOMAIN state'.plan = DOMAIN state.plan
              /\ \A k \in DOMAIN state.plan \ {"weight_cf", "weight_semantic", "trace"} :
                    state'.plan[k] = state.plan[k] ]_vars

\* C30 witness: a finished run in which Rerank moved the weights the Plan stage
\* had logged, the flags being those the Plan stage logged, with candidates of
\* both tools, a verdict and an explanation in the state.
C30_Witness ==
    /\ pc = "done"
    /\ Count("rerank") = 1
    /\ state.plan.weight_cf # TraceLog[2].weights.cf
    /\ state.plan.use_cf = TraceLog[2].use_cf
    /\ state.plan.use_semantic = TraceLog[2].use_semantic
    /\ Get(state, "cf", <<>>) # <<>>
    /\ Get(state, "sem", <<>>) # <<>>
    /\ state.critic.needs_rerank
    /\ "explanation" \in DOMAIN state

----------------------------------------------------------------------------
(* Two requests in flight through the same compiled graph: the agents, tools,
   ranker, Item Statistics and configuration are shared, each invoke() has its
   own state dict, and the nodes of the two requests interleave freely. Here
   pc, state, args and ret hold one value per request; args is the request
   and what its callees answer at each node. *)

\* mutant of SharedAfter: rerank_node writes the verdict's novelty_lambda into
\* the shared configuration
SharedAfterRerankWritesKnobs(node, c, st) ==
    IF node = "rerank"
    THEN [c EXCEPT !.novelty_lambda =
              Get(st.critic.adjustments, "novelty_lambda", c.novelty_lambda)]
    ELSE c

\* the shared configuration after a node ran: no node assigns to self.cfg
\* ("We do NOT mutate global cfg; we only tweak state knobs")
SharedAfter(node, c, st) == c

ConcInit ==
    /\ pc = [r \in {1, 2} |-> "intent"]
    /\ cfg \in {[DefaultCfg EXCEPT !.final_k = k] : k \in {FinalK, SmallFinalK}}
    /\ \E request \in [{1, 2} -> [context : {[query |-> QEmpty], [query |-> QSciFi]},
                                  user_id : {KnownUser}]],
          plan_calls \in [{1, 2} -> PipelineRuns({ [use_cf |-> TRUE, use_semantic |-> FALSE],
                                                   [weight_cf |-> PyStr] })],
          cf_answer \in [{1, 2} -> CfAnswers(KnownUser)],
          critic_calls \in [{1, 2} ->
              PipelineRuns({ [needs_rerank |-> TRUE,
                              adjustments |->
                                  AdjDict([weight_semantic_delta |-> PyFloat(<<3, 10>>)])] })] :
         /\ state = [r \in {1, 2} |-> request[r]]
         /\ args = [r \in {1, 2} |->
                      [ intent |-> [calls |-> <<CallDict([intent |-> "explore"]), CallUnparsable>>],
                        plan |-> [calls |-> plan_calls[r]],
                        retrieve |-> [cf_answer |-> cf_answer[r],
                                      sem_answer |-> ToolRows(<<Row(2, <<9, 10>>),
                                                               Row(3, <<3, 10>>)>>)],
                        rank |-> NoArgs,
                        critic |-> [calls |-> critic_calls[r]],
                        rerank |-> NoArgs,
                        explain |-> [calls |-> <<CallUnparsable, CallRaises>>] ]]
    /\ ret = [r \in {1, 2} |-> NoRet]

\* request r runs its next node
ConcStep(r) ==
    /\ pc[r] \notin {"done", "raised"}
    /\ LET node == pc[r]
           out == NodeStep(node, cfg, state[r], args[r][node])
       IN /\ cfg' = SharedAfter(node, cfg, state[r])
          /\ IF out.raised
             THEN /\ pc' = [pc EXCEPT ![r] = "raised"]
                  /\ ret' = [ret EXCEPT ![r] = [node |-> node]]
                  /\ state' = state
             ELSE /\ pc' = [pc EXCEPT ![r] = NextNode(node, out.value)]
                  /\ state' = [state EXCEPT ![r] = out.value]
                  /\ ret' = ret
    /\ args' = args

SpecConcurrent == ConcInit /\ [][\E r \in {1, 2} : ConcStep(r)]_vars

----------------------------------------------------------------------------
(* Claims about concurrent requests (SpecConcurrent) *)

\* a request run alone from `node` on: where it ends and with which state
RECURSIVE RunAlone(_, _, _, _)
RunAlone(node, c, st, answers) ==
    IF node = "done"
    THEN [pc |-> "done", state |-> st]
    ELSE LET out == NodeStep(node, c, st, answers[node])
         IN IF out.raised
            THEN [pc |-> "raised", state |-> st]
            ELSE RunAlone(NextNode(node, out.value), c, out.value, answers)

\* the state dict request r started from
Submitted(r) == [context |-> state[r].context, user_id |-> state[r].user_id]

C31_BothDoneReached ==
    /\ pc[1] = "done" /\ pc[2] = "done"
    /\ Len(state[1].trace_log) = 7 /\ Len(state[2].trace_log) = 7
    /\ state[1].recs # state[2].recs

====
